---- MODULE Spec2Model ----
(***************************************************************************)
(* A model of the HLS playlist codec of otio-hls: the line classifier, the *)
(* attribute-list parser, the byterange codec, the decoder that folds the  *)
(* classified lines into clips of one track, and the encoder of media and  *)
(* master playlists.                                                       *)
(*                                                                         *)
(* Text is modelled at the level of characters: a Go string is a sequence  *)
(* of one-character strings, so that parsing and formatting are computed   *)
(* and never assumed.  A float64 duration is a number of millionths of a   *)
(* second (the encoder prints six decimals); int and int64 values are      *)
(* mathematical integers, the texts of the model having too few digits to  *)
(* come near 2^63.                                                         *)
(***************************************************************************)
EXTENDS Integers, Sequences, FiniteSets, TLC

VARIABLES
    pc,        \* position of the running call
    input,     \* the lines the decoder's reader yields (bufio.Scanner tokens)
    entries,   \* []*PlaylistEntry built by parsePlaylist
    i,         \* loop index of decodeMediaPlaylist (1-based)
    st,        \* the locals of decodeMediaPlaylist
    timeline,  \* the timeline Decode returns (or NilTimeline)
    err,       \* the error Decode returns (ErrNone when nil)
    output,    \* what Encode wrote to its writer, as lines
    arg,       \* argument of a pure function under test
    ret        \* its result

vars == <<pc, input, entries, i, st, timeline, err, output, arg, ret>>

----------------------------------------------------------------------------
(* Bounds of the model *)

MaxLines == 4
MaxSegLines == 4
MaxStickyLines == 4
MaxRangeLines == 5
MaxMapLines == 4
MaxRTLines == 4
MaxFragLines == 4

MaxTracks == 2

MaxTwiceTracks == 1

MaxConcLines == 2

MaxBadLines == 4

MaxItems == 3

MaxClips == 3

MaxMapClips == 3

MaxOrderTracks == 3

MaxBrLen == 3
MaxAttrs == 3

----------------------------------------------------------------------------
(* Characters and Go's strings / strconv / fmt helpers *)

Digits == {"0", "1", "2", "3", "4", "5", "6", "7", "8", "9"}

DigitChars == <<"0", "1", "2", "3", "4", "5", "6", "7", "8", "9">>

UpperChars ==
    {"A", "B", "C", "D", "E", "F", "G", "H", "I", "J", "K", "L", "M",
     "N", "O", "P", "Q", "R", "S", "T", "U", "V", "W", "X", "Y", "Z"}

LowerChars ==
    {"a", "b", "c", "d", "e", "f", "g", "h", "i", "j", "k", "l", "m",
     "n", "o", "p", "q", "r", "s", "t", "u", "v", "w", "x", "y", "z"}

\* \w of Go's regexp
WordChars == Digits \cup UpperChars \cup LowerChars \cup {"_"}

\* [0-9A-Fa-f]
HexChars == Digits \cup {"A", "B", "C", "D", "E", "F", "a", "b", "c", "d", "e", "f"}

\* [A-Z0-9-]
EnumChars == UpperChars \cup Digits \cup {"-"}

SpaceChars == {" ", "\t"}

Take(s, n) == SubSeq(s, 1, IF n < Len(s) THEN n ELSE Len(s))

Drop(s, n) == SubSeq(s, n + 1, Len(s))

MinOf(S) == CHOOSE x \in S : \A y \in S : x <= y

MaxOf(S) == CHOOSE x \in S : \A y \in S : y <= x

\* strings.TrimSpace
TrimSpace(s) ==
    LET keep == {k \in 1..Len(s) : s[k] \notin SpaceChars}
    IN  IF keep = {} THEN <<>> ELSE SubSeq(s, MinOf(keep), MaxOf(keep))

\* strings.HasPrefix
HasPrefix(s, p) == Len(s) >= Len(p) /\ Take(s, Len(p)) = p

\* strings.TrimPrefix
TrimPrefix(s, p) == IF HasPrefix(s, p) THEN Drop(s, Len(p)) ELSE s

\* strings.Index for a one-character separator: 0-based, -1 when absent
StringsIndex(s, c) ==
    LET at == {k \in 1..Len(s) : s[k] = c}
    IN  IF at = {} THEN -1 ELSE MinOf(at) - 1

\* strings.Contains for a one-character substring
Contains(s, c) == \E k \in 1..Len(s) : s[k] = c

\* strings.Split on a one-character separator
RECURSIVE Split(_, _)
Split(s, c) ==
    LET at == StringsIndex(s, c)
    IN  IF at < 0 THEN <<s>> ELSE <<Take(s, at)>> \o Split(Drop(s, at + 1), c)

\* strings.SplitN(s, sep, 2)
SplitN2(s, c) ==
    LET at == StringsIndex(s, c)
    IN  IF at < 0 THEN <<s>> ELSE <<Take(s, at), Drop(s, at + 1)>>

\* strings.Join(parts, sep)
RECURSIVE Join(_, _)
Join(parts, sep) ==
    IF parts = <<>> THEN <<>>
    ELSE IF Len(parts) = 1 THEN parts[1]
    ELSE parts[1] \o sep \o Join(Tail(parts), sep)

DigitVal(c) == (CHOOSE k \in 1..10 : DigitChars[k] = c) - 1

AllDigits(s) == \A k \in 1..Len(s) : s[k] \in Digits

RECURSIVE DigitsValue(_)
DigitsValue(s) ==
    IF s = <<>> THEN 0
    ELSE 10 * DigitsValue(Take(s, Len(s) - 1)) + DigitVal(s[Len(s)])

\* strconv.ParseInt(s, 10, 64): optional sign, then one or more digits
ParseInt(s) ==
    LET neg  == s # <<>> /\ s[1] = "-"
        body == IF s # <<>> /\ s[1] \in {"+", "-"} THEN Tail(s) ELSE s
    IN  IF body = <<>> \/ ~AllDigits(body)
        THEN [err |-> TRUE, v |-> 0]
        ELSE [err |-> FALSE,
              v |-> IF neg THEN 0 - DigitsValue(body) ELSE DigitsValue(body)]

\* strconv.Atoi
Atoi(s) == ParseInt(s)

RECURSIVE NatToStr(_)
NatToStr(n) ==
    IF n < 10 THEN <<DigitChars[n + 1]>>
    ELSE NatToStr(n \div 10) \o <<DigitChars[(n % 10) + 1]>>

\* fmt.Sprintf("%d", n)
IntToStr(n) == IF n < 0 THEN <<"-">> \o NatToStr(0 - n) ELSE NatToStr(n)

\* the unit of a modelled float64: 10^-6, the precision of "%.6f"
MicroScale == 1000000

FracDigits == 6

RECURSIVE Pow10(_)
Pow10(n) == IF n = 0 THEN 1 ELSE 10 * Pow10(n - 1)

\* strconv.ParseFloat(s, 64) on decimal texts: optional sign, digits with an
\* optional fraction, at least one digit.  The value is in millionths, exact
\* for the texts of at most six fraction digits, the only ones the inputs hold.
ParseFloat(s) ==
    LET neg   == s # <<>> /\ s[1] = "-"
        body  == IF s # <<>> /\ s[1] \in {"+", "-"} THEN Tail(s) ELSE s
        parts == SplitN2(body, ".")
        ip    == parts[1]
        fp    == IF Len(parts) > 1 THEN Take(parts[2], FracDigits) ELSE <<>>
        wellFormed ==
            /\ AllDigits(ip)
            /\ Len(parts) > 1 => AllDigits(parts[2])
            /\ Len(ip) + (IF Len(parts) > 1 THEN Len(parts[2]) ELSE 0) > 0
        mag   == DigitsValue(ip) * MicroScale
                 + DigitsValue(fp) * Pow10(FracDigits - Len(fp))
    IN  IF ~wellFormed
        THEN [err |-> TRUE, v |-> 0]
        ELSE [err |-> FALSE, v |-> IF neg THEN 0 - mag ELSE mag]

PadZeros(s, n) == [k \in 1..(n - Len(s)) |-> "0"] \o s

\* fmt.Sprintf("%.6f", v) for a value in millionths
FormatFloat6(v) ==
    LET mag == IF v < 0 THEN 0 - v ELSE v
    IN  (IF v < 0 THEN <<"-">> ELSE <<>>)
        \o NatToStr(mag \div MicroScale) \o <<".">>
        \o PadZeros(NatToStr(mag % MicroScale), FracDigits)

\* all strings over an alphabet of at most n characters
StringsUpTo(alphabet, n) == UNION {[1..k -> alphabet] : k \in 0..n}

----------------------------------------------------------------------------
(* Byterange codec *)

NilBR == [isNil |-> TRUE, Count |-> 0, Offset |-> 0]

Byterange(count, offset) == [isNil |-> FALSE, Count |-> count, Offset |-> offset]

\* NewByterangeFromString: (*Byterange, error)
NewByterangeFromString(s) ==
    LET parts  == Split(s, "@")
        count  == ParseInt(parts[1])
        offset == ParseInt(parts[2])
    IN  IF Len(parts) = 0 \/ Len(parts) > 2 THEN [err |-> TRUE, br |-> NilBR]
        ELSE IF count.err THEN [err |-> TRUE, br |-> NilBR]
        ELSE IF Len(parts) = 2
             THEN IF offset.err THEN [err |-> TRUE, br |-> NilBR]
                  ELSE [err |-> FALSE, br |-> Byterange(count.v, offset.v)]
             ELSE [err |-> FALSE, br |-> Byterange(count.v, 0)]

\* a formatter that writes the offset whenever it is not negative
ByterangeStringAlways(b) ==
    IF b.Offset >= 0
    THEN IntToStr(b.Count) \o <<"@">> \o IntToStr(b.Offset)
    ELSE IntToStr(b.Count)

\* Byterange.String
ByterangeString(b) ==
    IF b.Offset > 0
    THEN IntToStr(b.Count) \o <<"@">> \o IntToStr(b.Offset)
    ELSE IntToStr(b.Count)

----------------------------------------------------------------------------
(* Metadata dictionaries: map[string]interface{} as a function from keys  *)
(* to values tagged with their dynamic Go type.                           *)

EmptyDict == <<>>

Has(d, k) == k \in DOMAIN d

Put(d, k, v) == [x \in (DOMAIN d) \cup {k} |-> IF x = k THEN v ELSE d[x]]

IntV(n) == [t |-> "int", v |-> n]

Int64V(n) == [t |-> "int64", v |-> n]

StrV(s) == [t |-> "string", v |-> s]

MapV(d) == [t |-> "map", v |-> d]

\* m[k].(T): the value when the key is present with dynamic type T
IsA(d, k, type) == Has(d, k) /\ d[k].t = type

metadataNamespace == "HLS"

streamingMetadataNamespace == "streaming"

----------------------------------------------------------------------------
(* Tags *)

sEXTM3U ==
    <<"E", "X", "T", "M", "3", "U">>
sEXTINF ==
    <<"E", "X", "T", "I", "N", "F">>
sEXTXVersion ==
    <<"E", "X", "T", "-", "X", "-", "V", "E", "R", "S", "I", "O", "N">>
sEXTXTargetDuration ==
    <<"E", "X", "T", "-", "X", "-", "T", "A", "R", "G", "E", "T",
      "D", "U", "R", "A", "T", "I", "O", "N">>
sEXTXMediaSequence ==
    <<"E", "X", "T", "-", "X", "-", "M", "E", "D", "I", "A", "-",
      "S", "E", "Q", "U", "E", "N", "C", "E">>
sEXTXPlaylistType ==
    <<"E", "X", "T", "-", "X", "-", "P", "L", "A", "Y", "L", "I", "S", "T",
      "-", "T", "Y", "P", "E">>
sEXTXByterange ==
    <<"E", "X", "T", "-", "X", "-", "B", "Y", "T", "E", "R", "A", "N", "G", "E">>
sEXTXMap ==
    <<"E", "X", "T", "-", "X", "-", "M", "A", "P">>
sEXTXEndList ==
    <<"E", "X", "T", "-", "X", "-", "E", "N", "D", "L", "I", "S", "T">>
sEXTXStreamInf ==
    <<"E", "X", "T", "-", "X", "-", "S", "T", "R", "E", "A", "M", "-", "I", "N", "F">>
sEXTXKey ==
    <<"E", "X", "T", "-", "X", "-", "K", "E", "Y">>
sEXTXProgramDateTime ==
    <<"E", "X", "T", "-", "X", "-", "P", "R", "O", "G", "R", "A", "M", "-",
      "D", "A", "T", "E", "-", "T", "I", "M", "E">>
sEXTXDiscontinuity ==
    <<"E", "X", "T", "-", "X", "-", "D", "I", "S", "C", "O", "N", "T", "I", "N",
      "U", "I", "T", "Y">>

tagEXTM3U == <<"#">> \o sEXTM3U
tagEXTINF == <<"#">> \o sEXTINF \o <<":">>
tagEXTXVersion == <<"#">> \o sEXTXVersion \o <<":">>
tagEXTXTargetDuration == <<"#">> \o sEXTXTargetDuration \o <<":">>
tagEXTXMediaSequence == <<"#">> \o sEXTXMediaSequence \o <<":">>
tagEXTXPlaylistType == <<"#">> \o sEXTXPlaylistType \o <<":">>
tagEXTXByterange == <<"#">> \o sEXTXByterange \o <<":">>
tagEXTXMap == <<"#">> \o sEXTXMap \o <<":">>
tagEXTXEndList == <<"#">> \o sEXTXEndList
tagEXTXStreamInf == <<"#">> \o sEXTXStreamInf \o <<":">>
tagEXTXKey == <<"#">> \o sEXTXKey \o <<":">>
tagEXTXProgramDateTime == <<"#">> \o sEXTXProgramDateTime \o <<":">>
tagEXTXDiscontinuity == <<"#">> \o sEXTXDiscontinuity

defaultHLSVersion == 3

----------------------------------------------------------------------------
(* Attribute lists *)

\* length of the longest prefix of s made of characters of S
RunLen(s, S) ==
    LET bad == {k \in 1..Len(s) : s[k] \notin S}
    IN  IF bad = {} THEN Len(s) ELSE MinOf(bad) - 1

NoMatch == [matched |-> FALSE, key |-> <<>>, value |-> <<>>, end |-> 0]

\* The part (\w+)= shared by the five patterns, matched at position 0: the
\* key is the longest run of word characters and "=" follows it.
KeyLen(s) ==
    LET k == RunLen(s, WordChars)
    IN  IF k >= 1 /\ Len(s) > k /\ s[k + 1] = "=" THEN k ELSE 0

AttrMatch(s, valueLen) ==
    LET k == KeyLen(s)
    IN  [matched |-> TRUE, key |-> Take(s, k),
         value |-> SubSeq(s, k + 2, k + 1 + valueLen), end |-> k + 1 + valueLen]

\* reQuoted = (\w+)="([^"]*)" matching at position 0
MatchQuoted(s) ==
    LET k     == KeyLen(s)
        rest  == Drop(s, k + 1)
        close == StringsIndex(Drop(rest, 1), "\"")
    IN  IF k = 0 \/ rest = <<>> \/ rest[1] # "\"" \/ close < 0 THEN NoMatch
        ELSE [matched |-> TRUE, key |-> Take(s, k),
              value |-> SubSeq(rest, 2, close + 1), end |-> k + 1 + close + 2]

\* reResolution = (\w+)=(\d+x\d+) matching at position 0
MatchResolution(s) ==
    LET k    == KeyLen(s)
        rest == Drop(s, k + 1)
        w    == RunLen(rest, Digits)
        h    == RunLen(Drop(rest, w + 1), Digits)
    IN  IF k = 0 \/ w = 0 \/ Len(rest) <= w \/ rest[w + 1] # "x" \/ h = 0
        THEN NoMatch
        ELSE AttrMatch(s, w + 1 + h)

\* reHex = (\w+)=(0x[0-9A-Fa-f]+) matching at position 0
MatchHex(s) ==
    LET k    == KeyLen(s)
        rest == Drop(s, k + 1)
        h    == RunLen(Drop(rest, 2), HexChars)
    IN  IF k = 0 \/ ~HasPrefix(rest, <<"0", "x">>) \/ h = 0 THEN NoMatch
        ELSE AttrMatch(s, 2 + h)

\* reFloat = (\w+)=(\d+(?:\.\d+)?) matching at position 0
MatchFloat(s) ==
    LET k    == KeyLen(s)
        rest == Drop(s, k + 1)
        d    == RunLen(rest, Digits)
        f    == IF Len(rest) > d /\ rest[d + 1] = "."
                THEN RunLen(Drop(rest, d + 1), Digits) ELSE 0
    IN  IF k = 0 \/ d = 0 THEN NoMatch
        ELSE AttrMatch(s, IF f > 0 THEN d + 1 + f ELSE d)

\* reEnum = (\w+)=([A-Z0-9-]+) matching at position 0
MatchEnum(s) ==
    LET k    == KeyLen(s)
        rest == Drop(s, k + 1)
        e    == RunLen(rest, EnumChars)
    IN  IF k = 0 \/ e = 0 THEN NoMatch ELSE AttrMatch(s, e)

\* the first of reQuoted, reResolution, reHex, reFloat, reEnum whose
\* leftmost match starts at position 0
FirstMatch(s) ==
    IF MatchQuoted(s).matched THEN MatchQuoted(s)
    ELSE IF MatchResolution(s).matched THEN MatchResolution(s)
    ELSE IF MatchHex(s).matched THEN MatchHex(s)
    ELSE IF MatchFloat(s).matched THEN MatchFloat(s)
    ELSE MatchEnum(s)

\* the for loop of ParseAttributeList
RECURSIVE ParseAttrLoop(_, _)
ParseAttrLoop(remaining0, attrs) ==
    IF Len(remaining0) = 0 THEN attrs
    ELSE LET remaining == TrimSpace(remaining0)
             m   == FirstMatch(remaining)
             idx == StringsIndex(remaining, ",")
         IN  IF remaining = <<>> THEN attrs
             ELSE IF m.matched
                  THEN ParseAttrLoop(TrimPrefix(Drop(remaining, m.end), <<",">>),
                                     Put(attrs, m.key, m.value))
                  ELSE IF idx > 0
                       THEN ParseAttrLoop(Drop(remaining, idx + 1), attrs)
                       ELSE attrs

ParseAttributeList(s) == ParseAttrLoop(s, EmptyDict)

\* AttributeList.Get
Get(a, key) == IF key \in DOMAIN a THEN a[key] ELSE <<>>

----------------------------------------------------------------------------
(* Line classifier *)

EntryTypeComment == 0
EntryTypeTag == 1
EntryTypeURI == 2

\* the nil *PlaylistEntry
NilEntry == [isNil |-> TRUE, Type |-> EntryTypeComment, Tag |-> <<>>,
             Value |-> <<>>, URI |-> <<>>]

PlaylistEntry(type, tag, value, uri) ==
    [isNil |-> FALSE, Type |-> type, Tag |-> tag, Value |-> value, URI |-> uri]

\* ParsePlaylistEntry; reTag = ^#(EXT[^:]*):?(.*)$ and reComment = ^#(.*)$
ParsePlaylistEntry(rawLine) ==
    LET line  == TrimSpace(rawLine)
        body  == Drop(line, 1)
        colon == StringsIndex(body, ":")
    IN  IF line = <<>> THEN NilEntry
        ELSE IF HasPrefix(line, <<"#", "E", "X", "T">>)
             THEN IF colon < 0
                  THEN PlaylistEntry(EntryTypeTag, body, <<>>, <<>>)
                  ELSE PlaylistEntry(EntryTypeTag, Take(body, colon),
                                     Drop(body, colon + 1), <<>>)
        ELSE IF HasPrefix(line, <<"#">>)
             THEN PlaylistEntry(EntryTypeComment, <<>>, body, <<>>)
        ELSE PlaylistEntry(EntryTypeURI, <<>>, <<>>, line)

\* PlaylistEntry.IsTag
IsTag(e, tagName) == e.Type = EntryTypeTag /\ e.Tag = tagName

----------------------------------------------------------------------------
(* Decoder *)

ErrNone == "nil"

ErrInvalid == "not a valid M3U8 playlist"

ErrUnsupported == "unsupported playlist type (master playlists not yet implemented)"

TrackKindVideo == "Video"

NilTimeline == [isNil |-> TRUE, name |-> "", metadata |-> EmptyDict, tracks |-> <<>>]

\* the entries parsePlaylist appends, in input order
RECURSIVE ScanEntries(_)
ScanEntries(lines) ==
    IF lines = <<>> THEN <<>>
    ELSE LET entry == ParsePlaylistEntry(lines[1])
         IN  (IF entry.isNil THEN <<>> ELSE <<entry>>) \o ScanEntries(Tail(lines))

\* a validation that only rejects the empty entry list
ValidHeaderAnyFirst(es) == ~(Len(es) = 0)

\* the validation at the end of parsePlaylist
ValidHeader(es) == ~(Len(es) = 0 \/ ~IsTag(es[1], sEXTM3U))

\* a scan that takes a playlist with neither tag for a media playlist
RECURSIVE isMediaPlaylistUnlessMaster(_)
isMediaPlaylistUnlessMaster(es) ==
    IF es = <<>> THEN TRUE
    ELSE IF IsTag(es[1], sEXTINF) THEN TRUE
    ELSE IF IsTag(es[1], sEXTXStreamInf) THEN FALSE
    ELSE isMediaPlaylistUnlessMaster(Tail(es))

\* a scan that looks for EXTINF anywhere, whatever precedes it
isMediaPlaylistAnyExtinf(es) == \E k \in 1..Len(es) : IsTag(es[k], sEXTINF)

\* isMediaPlaylist
RECURSIVE isMediaPlaylist(_)
isMediaPlaylist(es) ==
    IF es = <<>> THEN FALSE
    ELSE IF IsTag(es[1], sEXTINF) THEN TRUE
    ELSE IF IsTag(es[1], sEXTXStreamInf) THEN FALSE
    ELSE isMediaPlaylist(Tail(es))

NoRange == [has |-> FALSE, duration |-> 0]

\* createClip
createClip(uri, duration, title, byterange, mapURI, mapByterange, keyInfo, programDateTime, discontinuitySeq) ==
    LET name == IF title = <<>> THEN uri ELSE title
        sourceRange ==
            IF duration > 0 THEN [has |-> TRUE, duration |-> duration] ELSE NoRange
        s0 == EmptyDict
        s1 == IF ~byterange.isNil
              THEN Put(Put(s0, "byte_count", Int64V(byterange.Count)),
                       "byte_offset", Int64V(byterange.Offset))
              ELSE s0
        s2 == IF mapURI # <<>> THEN Put(s1, "init_uri", StrV(mapURI)) ELSE s1
        streamingMetadata ==
            IF mapURI # <<>> /\ ~mapByterange.isNil
            THEN Put(s2, "init_byterange",
                     MapV(Put(Put(EmptyDict, "byte_count", Int64V(mapByterange.Count)),
                              "byte_offset", Int64V(mapByterange.Offset))))
            ELSE s2
        h0 == EmptyDict
        h1 == IF keyInfo # <<>> THEN Put(h0, "EXT-X-KEY", StrV(keyInfo)) ELSE h0
        h2 == IF programDateTime # <<>>
              THEN Put(h1, "EXT-X-PROGRAM-DATE-TIME", StrV(programDateTime)) ELSE h1
        hlsClipMetadata ==
            IF discontinuitySeq > 0
            THEN Put(h2, "discontinuity_sequence", IntV(discontinuitySeq)) ELSE h2
        m1 == IF DOMAIN hlsClipMetadata # {}
              THEN Put(EmptyDict, metadataNamespace, MapV(hlsClipMetadata))
              ELSE EmptyDict
        metadata ==
            IF DOMAIN streamingMetadata # {}
            THEN Put(m1, streamingMetadataNamespace, MapV(streamingMetadata))
            ELSE m1
    IN  [name |-> name, sourceRange |-> sourceRange, targetURL |-> uri,
         metadata |-> metadata, refMetadata |-> metadata]

\* the locals of decodeMediaPlaylist before its loop
InitState ==
    [currentDuration |-> 0, currentTitle |-> <<>>, currentByterange |-> NilBR,
     currentKey |-> <<>>, currentProgramDateTime |-> <<>>, mapURI |-> <<>>,
     mapByterange |-> NilBR, lastByterangeEnd |-> 0, discontinuityCount |-> 0,
     hlsMetadata |-> EmptyDict, children |-> <<>>]

\* case EXT-X-MAP
DecodeMap(s, entry) ==
    LET attrs        == ParseAttributeList(entry.Value)
        byterangeStr == Get(attrs, <<"B", "Y", "T", "E", "R", "A", "N", "G", "E">>)
    IN  [s EXCEPT !.mapURI = Get(attrs, <<"U", "R", "I">>),
                  !.mapByterange = IF byterangeStr # <<>>
                                   THEN NewByterangeFromString(byterangeStr).br
                                   ELSE @]

\* case EXTINF
DecodeExtinf(s, entry) ==
    LET parts == SplitN2(entry.Value, ",")
    IN  [s EXCEPT !.currentDuration = ParseFloat(TrimSpace(parts[1])).v,
                  !.currentTitle = IF Len(parts) > 1 THEN TrimSpace(parts[2]) ELSE @]

\* a BYTERANGE case that stages an empty byterange when the value does not parse
DecodeByterangeZero(s, entry) ==
    LET r == NewByterangeFromString(TrimSpace(entry.Value))
    IN  IF r.err THEN [s EXCEPT !.currentByterange = Byterange(0, 0)]
        ELSE [s EXCEPT !.currentByterange =
                  IF r.br.Offset = 0 /\ s.lastByterangeEnd > 0
                  THEN [r.br EXCEPT !.Offset = s.lastByterangeEnd]
                  ELSE r.br]

\* a BYTERANGE case that stores every byterange as written
DecodeByterangeAsWritten(s, entry) ==
    LET r == NewByterangeFromString(TrimSpace(entry.Value))
    IN  IF r.err THEN s ELSE [s EXCEPT !.currentByterange = r.br]

\* case EXT-X-BYTERANGE
DecodeByterange(s, entry) ==
    LET r == NewByterangeFromString(TrimSpace(entry.Value))
    IN  IF r.err THEN s
        ELSE [s EXCEPT !.currentByterange =
                  IF r.br.Offset = 0 /\ s.lastByterangeEnd > 0
                  THEN [r.br EXCEPT !.Offset = s.lastByterangeEnd]
                  ELSE r.br]

\* an emit that leaves the staged title in place
DecodeURIKeepTitle(s, entry) ==
    LET clip == createClip(entry.URI, s.currentDuration, s.currentTitle,
                           s.currentByterange, s.mapURI, s.mapByterange,
                           s.currentKey, s.currentProgramDateTime,
                           s.discontinuityCount)
    IN  [s EXCEPT !.children = Append(@, clip),
                  !.lastByterangeEnd =
                      IF ~s.currentByterange.isNil
                      THEN s.currentByterange.Offset + s.currentByterange.Count
                      ELSE @,
                  !.currentDuration = 0,
                  !.currentByterange = NilBR,
                  !.currentProgramDateTime = <<>>]

\* an emit that resets the sticky fields too
DecodeURIResetAll(s, entry) ==
    LET clip == createClip(entry.URI, s.currentDuration, s.currentTitle,
                           s.currentByterange, s.mapURI, s.mapByterange,
                           s.currentKey, s.currentProgramDateTime,
                           s.discontinuityCount)
    IN  [s EXCEPT !.children = Append(@, clip),
                  !.lastByterangeEnd =
                      IF ~s.currentByterange.isNil
                      THEN s.currentByterange.Offset + s.currentByterange.Count
                      ELSE @,
                  !.currentDuration = 0,
                  !.currentTitle = <<>>,
                  !.currentByterange = NilBR,
                  !.currentProgramDateTime = <<>>,
                  !.currentKey = <<>>,
                  !.discontinuityCount = 0]

\* an emit that takes the discontinuity count for a per-segment field
DecodeURIResetDisc(s, entry) ==
    LET clip == createClip(entry.URI, s.currentDuration, s.currentTitle,
                           s.currentByterange, s.mapURI, s.mapByterange,
                           s.currentKey, s.currentProgramDateTime,
                           s.discontinuityCount)
    IN  [s EXCEPT !.children = Append(@, clip),
                  !.lastByterangeEnd =
                      IF ~s.currentByterange.isNil
                      THEN s.currentByterange.Offset + s.currentByterange.Count
                      ELSE @,
                  !.currentDuration = 0,
                  !.currentTitle = <<>>,
                  !.currentByterange = NilBR,
                  !.currentProgramDateTime = <<>>,
                  !.discontinuityCount = 0]

\* case entry.Type == EntryTypeURI
DecodeURI(s, entry) ==
    LET clip == createClip(entry.URI, s.currentDuration, s.currentTitle,
                           s.currentByterange, s.mapURI, s.mapByterange,
                           s.currentKey, s.currentProgramDateTime,
                           s.discontinuityCount)
    IN  [s EXCEPT !.children = Append(@, clip),
                  !.lastByterangeEnd =
                      IF ~s.currentByterange.isNil
                      THEN s.currentByterange.Offset + s.currentByterange.Count
                      ELSE @,
                  !.currentDuration = 0,
                  !.currentTitle = <<>>,
                  !.currentByterange = NilBR,
                  !.currentProgramDateTime = <<>>]

\* one iteration of the loop of decodeMediaPlaylist: its switch
DecodeStep(s, entry) ==
    CASE IsTag(entry, sEXTXVersion) ->
            [s EXCEPT !.hlsMetadata =
                Put(@, "version", IntV(Atoi(TrimSpace(entry.Value)).v))]
      [] IsTag(entry, sEXTXTargetDuration) ->
            [s EXCEPT !.hlsMetadata =
                Put(@, "target_duration", IntV(Atoi(TrimSpace(entry.Value)).v))]
      [] IsTag(entry, sEXTXMediaSequence) ->
            [s EXCEPT !.hlsMetadata =
                Put(@, "media_sequence", IntV(Atoi(TrimSpace(entry.Value)).v))]
      [] IsTag(entry, sEXTXPlaylistType) ->
            [s EXCEPT !.hlsMetadata =
                Put(@, "playlist_type", StrV(TrimSpace(entry.Value)))]
      [] IsTag(entry, sEXTXMap) -> DecodeMap(s, entry)
      [] IsTag(entry, sEXTINF) -> DecodeExtinf(s, entry)
      [] IsTag(entry, sEXTXByterange) -> DecodeByterange(s, entry)
      [] IsTag(entry, sEXTXKey) -> [s EXCEPT !.currentKey = entry.Value]
      [] IsTag(entry, sEXTXProgramDateTime) ->
            [s EXCEPT !.currentProgramDateTime = TrimSpace(entry.Value)]
      [] IsTag(entry, sEXTXDiscontinuity) ->
            [s EXCEPT !.discontinuityCount = @ + 1]
      [] entry.Type = EntryTypeURI -> DecodeURI(s, entry)
      [] OTHER -> s

\* the timeline decodeMediaPlaylist returns after its loop
BuildTimeline(s) ==
    [isNil |-> FALSE, name |-> "HLS Playlist", metadata |-> EmptyDict,
     tracks |-> <<[name |-> "", kind |-> TrackKindVideo,
                   metadata |-> Put(EmptyDict, metadataNamespace, MapV(s.hlsMetadata)),
                   children |-> s.children]>>]

----------------------------------------------------------------------------
(* Decode as a state machine: parsePlaylist, isMediaPlaylist, the loop of  *)
(* decodeMediaPlaylist one entry at a time, and its return.                *)

NoState == [none |-> TRUE]

NoArg == [from |-> "none", br |-> NilBR, text |-> <<>>]

NoRet == [parsed |-> [err |-> FALSE, br |-> NilBR], str |-> <<>>]

\* parsePlaylist returns the error of its validation
ParseFail ==
    /\ pc = "start"
    /\ ~ValidHeader(ScanEntries(input))
    /\ entries' = <<>>
    /\ err' = ErrInvalid
    /\ timeline' = NilTimeline
    /\ pc' = "done"
    /\ UNCHANGED <<input, i, st, output, arg, ret>>

\* parsePlaylist returns the entries
ParseOk ==
    /\ pc = "start"
    /\ ValidHeader(ScanEntries(input))
    /\ entries' = ScanEntries(input)
    /\ pc' = "parsed"
    /\ UNCHANGED <<input, i, st, timeline, err, output, arg, ret>>

\* Decode: isMediaPlaylist is false
NotMedia ==
    /\ pc = "parsed"
    /\ ~isMediaPlaylist(entries)
    /\ err' = ErrUnsupported
    /\ timeline' = NilTimeline
    /\ pc' = "done"
    /\ UNCHANGED <<input, entries, i, st, output, arg, ret>>

\* Decode: isMediaPlaylist is true, decodeMediaPlaylist starts
BeginMedia ==
    /\ pc = "parsed"
    /\ isMediaPlaylist(entries)
    /\ st' = InitState
    /\ i' = 1
    /\ pc' = "loop"
    /\ UNCHANGED <<input, entries, timeline, err, output, arg, ret>>

\* one iteration of the loop
DecodeEntry ==
    /\ pc = "loop"
    /\ i <= Len(entries)
    /\ st' = DecodeStep(st, entries[i])
    /\ i' = i + 1
    /\ UNCHANGED <<pc, input, entries, timeline, err, output, arg, ret>>

\* the loop is over: decodeMediaPlaylist returns the timeline
FinishDecode ==
    /\ pc = "loop"
    /\ i > Len(entries)
    /\ timeline' = BuildTimeline(st)
    /\ err' = ErrNone
    /\ pc' = "decoded"
    /\ UNCHANGED <<input, entries, i, st, output, arg, ret>>

Next == ParseFail \/ ParseOk \/ NotMedia \/ BeginMedia \/ DecodeEntry \/ FinishDecode

----------------------------------------------------------------------------
(* Encoder *)

FloatV(v) == [t |-> "float64", v |-> v]

\* int(v) of a float64 in millionths: truncation toward zero
TruncToInt(v) ==
    IF v >= 0 THEN v \div MicroScale ELSE 0 - ((0 - v) \div MicroScale)

\* ByterangeFromMetadata
ByterangeFromMetadata(m) ==
    Byterange(IF IsA(m, "count", "int64") THEN m["count"].v
              ELSE IF IsA(m, "count", "float64") THEN TruncToInt(m["count"].v)
              ELSE 0,
              IF IsA(m, "offset", "int64") THEN m["offset"].v
              ELSE IF IsA(m, "offset", "float64") THEN TruncToInt(m["offset"].v)
              ELSE 0)

needsQuoting(s) ==
    \/ \E k \in 1..Len(s) :
          s[k] \notin UpperChars \cup LowerChars \cup Digits \cup {".", "x", "-"}
    \/ Contains(s, ",") \/ Contains(s, "/")

\* the orders in which a range over a map may visit its keys
KeyOrders(a) ==
    {f \in [1..Cardinality(DOMAIN a) -> DOMAIN a] :
        \A x, y \in 1..Cardinality(DOMAIN a) : x # y => f[x] # f[y]}

\* AttributeList.String: one text for each order of the keys
AttributeListStrings(a) ==
    {Join([n \in 1..Len(f) |->
              IF needsQuoting(a[f[n]])
              THEN f[n] \o <<"=", "\"">> \o a[f[n]] \o <<"\"">>
              ELSE f[n] \o <<"=">> \o a[f[n]]],
          <<",">>) : f \in KeyOrders(a)}

\* getHLSMetadata of an object with the metadata md
getHLSMetadata(md) ==
    IF IsA(md, metadataNamespace, "map") THEN md[metadataNamespace].v ELSE EmptyDict

\* getTargetURL: the clips of the model all hold an external reference
getTargetURL(clip) == clip.targetURL

\* header lines with the media sequence written before the target duration
HeaderLinesSeqFirst(hlsMetadata) ==
    LET num(key) ==
            IF IsA(hlsMetadata, key, "int") THEN hlsMetadata[key].v
            ELSE TruncToInt(hlsMetadata[key].v)
        isNum(key) == IsA(hlsMetadata, key, "int") \/ IsA(hlsMetadata, key, "float64")
        version == IF isNum("version") THEN num("version") ELSE defaultHLSVersion
    IN  <<tagEXTM3U, tagEXTXVersion \o IntToStr(version)>>
        \o (IF isNum("media_sequence")
            THEN <<tagEXTXMediaSequence \o IntToStr(num("media_sequence"))>>
            ELSE <<>>)
        \o (IF isNum("target_duration")
            THEN <<tagEXTXTargetDuration \o IntToStr(num("target_duration"))>>
            ELSE <<>>)
        \o (IF IsA(hlsMetadata, "playlist_type", "string")
            THEN <<tagEXTXPlaylistType \o hlsMetadata["playlist_type"].v>>
            ELSE <<>>)

\* the version line, and the lines of the playlist tags that are present
HeaderLines(hlsMetadata) ==
    LET num(key) ==
            IF IsA(hlsMetadata, key, "int") THEN hlsMetadata[key].v
            ELSE TruncToInt(hlsMetadata[key].v)
        isNum(key) == IsA(hlsMetadata, key, "int") \/ IsA(hlsMetadata, key, "float64")
        version == IF isNum("version") THEN num("version") ELSE defaultHLSVersion
    IN  <<tagEXTM3U, tagEXTXVersion \o IntToStr(version)>>
        \o (IF isNum("target_duration")
            THEN <<tagEXTXTargetDuration \o IntToStr(num("target_duration"))>>
            ELSE <<>>)
        \o (IF isNum("media_sequence")
            THEN <<tagEXTXMediaSequence \o IntToStr(num("media_sequence"))>>
            ELSE <<>>)
        \o (IF IsA(hlsMetadata, "playlist_type", "string")
            THEN <<tagEXTXPlaylistType \o hlsMetadata["playlist_type"].v>>
            ELSE <<>>)

\* segment lines that carry the clip name as the title whenever it is not empty
SegmentLinesNamed(clip) ==
    LET clipHLSMetadata == getHLSMetadata(clip.metadata)
        durationSeconds ==
            IF clip.sourceRange.has THEN clip.sourceRange.duration ELSE 0
        title == clip.name
    IN  <<tagEXTINF \o FormatFloat6(durationSeconds) \o <<",">>
              \o (IF title # <<>> THEN title ELSE <<>>)>>
        \o (IF IsA(clipHLSMetadata, "byterange", "map")
            THEN <<tagEXTXByterange
                     \o ByterangeString(ByterangeFromMetadata(clipHLSMetadata["byterange"].v))>>
            ELSE <<>>)
        \o <<getTargetURL(clip)>>

\* the EXTINF, EXT-X-BYTERANGE and URI lines of one clip
SegmentLines(clip) ==
    LET clipHLSMetadata == getHLSMetadata(clip.metadata)
        durationSeconds ==
            IF clip.sourceRange.has THEN clip.sourceRange.duration ELSE 0
        title == clip.name
    IN  <<tagEXTINF \o FormatFloat6(durationSeconds) \o <<",">>
              \o (IF title # <<>> /\ title # getTargetURL(clip) THEN title ELSE <<>>)>>
        \o (IF IsA(clipHLSMetadata, "byterange", "map")
            THEN <<tagEXTXByterange
                     \o ByterangeString(ByterangeFromMetadata(clipHLSMetadata["byterange"].v))>>
            ELSE <<>>)
        \o <<getTargetURL(clip)>>

\* child.(*Track) and child.(*Clip): the dynamic type of a child of a container
IsTrack(child) == "kind" \in DOMAIN child

IsClip(child) == "targetURL" \in DOMAIN child

\* the loop over the children with an EXT-X-MAP line for every clip that has an
\* init segment, whatever was written last
RECURSIVE SegmentsLinesEveryMap(_, _, _)
SegmentsLinesEveryMap(children, lastMapURI, lastMapByterange) ==
    IF children = <<>> THEN {<<>>}
    ELSE IF ~IsClip(Head(children))
    THEN SegmentsLinesEveryMap(Tail(children), lastMapURI, lastMapByterange)
    ELSE
      LET clip == Head(children)
          clipHLSMetadata == getHLSMetadata(clip.metadata)
          hasMap  == IsA(clipHLSMetadata, "map", "map")
          mapData == IF hasMap THEN clipHLSMetadata["map"].v ELSE EmptyDict
          mapURI  == IF IsA(mapData, "uri", "string") THEN mapData["uri"].v ELSE <<>>
          mapByterangeStr ==
              IF IsA(mapData, "byterange", "map")
              THEN ByterangeString(ByterangeFromMetadata(mapData["byterange"].v))
              ELSE <<>>
          mapAttrs ==
              IF mapByterangeStr # <<>>
              THEN Put(Put(EmptyDict, <<"U", "R", "I">>, mapURI), <<"B", "Y", "T", "E", "R", "A", "N", "G", "E">>, mapByterangeStr)
              ELSE Put(EmptyDict, <<"U", "R", "I">>, mapURI)
          mapLines ==
              IF hasMap
              THEN {<<tagEXTXMap \o t>> : t \in AttributeListStrings(mapAttrs)}
              ELSE {<<>>}
      IN  {m \o SegmentLines(clip) \o r :
              m \in mapLines,
              r \in SegmentsLinesEveryMap(Tail(children), mapURI, mapByterangeStr)}

\* the loop over the children of the track: the sets of lines it may write,
\* given the last init-segment written
RECURSIVE SegmentsLines(_, _, _)
SegmentsLines(children, lastMapURI, lastMapByterange) ==
    IF children = <<>> THEN {<<>>}
    ELSE IF ~IsClip(Head(children))
    THEN SegmentsLines(Tail(children), lastMapURI, lastMapByterange)
    ELSE
      LET clip == Head(children)
          clipHLSMetadata == getHLSMetadata(clip.metadata)
          hasMap  == IsA(clipHLSMetadata, "map", "map")
          mapData == IF hasMap THEN clipHLSMetadata["map"].v ELSE EmptyDict
          mapURI  == IF IsA(mapData, "uri", "string") THEN mapData["uri"].v ELSE <<>>
          mapByterangeStr ==
              IF IsA(mapData, "byterange", "map")
              THEN ByterangeString(ByterangeFromMetadata(mapData["byterange"].v))
              ELSE <<>>
          changed == hasMap /\ (mapURI # lastMapURI \/ mapByterangeStr # lastMapByterange)
          mapAttrs ==
              IF mapByterangeStr # <<>>
              THEN Put(Put(EmptyDict, <<"U", "R", "I">>, mapURI),
                       <<"B", "Y", "T", "E", "R", "A", "N", "G", "E">>, mapByterangeStr)
              ELSE Put(EmptyDict, <<"U", "R", "I">>, mapURI)
          mapLines ==
              IF changed
              THEN {<<tagEXTXMap \o t>> : t \in AttributeListStrings(mapAttrs)}
              ELSE {<<>>}
      IN  {m \o SegmentLines(clip) \o r :
              m \in mapLines,
              r \in SegmentsLines(Tail(children),
                                  IF changed THEN mapURI ELSE lastMapURI,
                                  IF changed THEN mapByterangeStr ELSE lastMapByterange)}

\* encodeMediaPlaylist: the texts it may write for a track, as lines
encodeMediaPlaylist(track) ==
    {HeaderLines(getHLSMetadata(track.metadata)) \o body \o <<tagEXTXEndList>> :
        body \in SegmentsLines(track.children, <<>>, <<>>)}

BoolV(b) == [t |-> "bool", v |-> b]

NilV == [t |-> "nil", v |-> FALSE]

\* a []interface{} value
ListV(s) == [t |-> "list", v |-> s]

TrackKindAudio == "Audio"

\* the text of a metadata key
KeyText(key) ==
    CASE key = "EXT-X-INDEPENDENT-SEGMENTS" ->
            <<"E", "X", "T", "-", "X", "-", "I", "N", "D", "E", "P", "E", "N", "D", "E", "N", "T", "-", "S", "E", "G", "M", "E", "N", "T", "S">>
      [] key = "EXT-X-START" -> <<"E", "X", "T", "-", "X", "-", "S", "T", "A", "R", "T">>
      [] OTHER -> <<"?">>

RECURSIVE TrimZeros(_)
TrimZeros(s) ==
    IF s # <<>> /\ s[Len(s)] = "0" THEN TrimZeros(Take(s, Len(s) - 1)) ELSE s

\* %v of a float64 (strconv 'g', shortest): v in millionths; the exponent form
\* is used when the decimal exponent is below -4 or at least 6
FormatG(v) ==
    LET mag  == IF v < 0 THEN 0 - v ELSE v
        sign == IF v < 0 THEN <<"-">> ELSE <<>>
        all  == NatToStr(mag)
        digs == TrimZeros(all)
        dp   == Len(all) - FracDigits
        exp  == dp - 1
        absE == IF exp < 0 THEN 0 - exp ELSE exp
        mant == <<digs[1]>> \o (IF Len(digs) > 1 THEN <<".">> \o Tail(digs) ELSE <<>>)
    IN  IF mag = 0 THEN <<"0">>
        ELSE IF exp < -4 \/ exp >= 6
        THEN sign \o mant \o <<"e", IF exp < 0 THEN "-" ELSE "+">>
                  \o PadZeros(NatToStr(absE), 2)
        ELSE IF dp <= 0
        THEN sign \o <<"0", ".">> \o [k \in 1..(0 - dp) |-> "0"] \o digs
        ELSE IF Len(digs) <= dp
        THEN sign \o digs \o [k \in 1..(dp - Len(digs)) |-> "0"]
        ELSE sign \o Take(digs, dp) \o <<".">> \o Drop(digs, dp)

\* fmt's %v of a metadata value
FormatV(d) ==
    CASE d.t \in {"int", "int64"} -> IntToStr(d.v)
      [] d.t = "float64" -> FormatG(d.v)
      [] d.t = "string" -> d.v
      [] d.t = "bool" -> IF d.v THEN <<"t", "r", "u", "e">> ELSE <<"f", "a", "l", "s", "e">>
      [] OTHER -> <<"<", "n", "i", "l", ">">>

\* getStreamingMetadata of an object with the metadata md
getStreamingMetadata(md) ==
    IF IsA(md, streamingMetadataNamespace, "map")
    THEN md[streamingMetadataNamespace].v ELSE EmptyDict

getStringOrDefault(m, key, defaultVal) ==
    IF IsA(m, key, "string") THEN m[key].v ELSE defaultVal

getIntOrDefault(m, key, defaultVal) ==
    IF IsA(m, key, "int") THEN m[key].v
    ELSE IF IsA(m, key, "float64") THEN TruncToInt(m[key].v)
    ELSE defaultVal

\* AttributeList.GetInt
GetInt(a, key) == IF Get(a, key) = <<>> THEN [err |-> TRUE, v |-> 0] ELSE Atoi(Get(a, key))

kBANDWIDTH == <<"B", "A", "N", "D", "W", "I", "D", "T", "H">>

kCODECS == <<"C", "O", "D", "E", "C", "S">>

kFRAMERATE == <<"F", "R", "A", "M", "E", "-", "R", "A", "T", "E">>

kRESOLUTION == <<"R", "E", "S", "O", "L", "U", "T", "I", "O", "N">>

kAUDIO == <<"A", "U", "D", "I", "O">>

kSUBTITLES == <<"S", "U", "B", "T", "I", "T", "L", "E", "S">>

kCLOSEDCAPTIONS == <<"C", "L", "O", "S", "E", "D", "-", "C", "A", "P", "T", "I", "O", "N", "S">>

kURI == <<"U", "R", "I">>

kTYPE == <<"T", "Y", "P", "E">>

kGROUPID == <<"G", "R", "O", "U", "P", "-", "I", "D">>

kNAME == <<"N", "A", "M", "E">>

kAUTOSELECT == <<"A", "U", "T", "O", "S", "E", "L", "E", "C", "T">>

kDEFAULT == <<"D", "E", "F", "A", "U", "L", "T">>

sEXTXMedia == <<"E", "X", "T", "-", "X", "-", "M", "E", "D", "I", "A">>

sEXTXIFrameStreamInf == <<"E", "X", "T", "-", "X", "-", "I", "-", "F", "R", "A", "M", "E", "-", "S", "T", "R", "E", "A", "M", "-", "I", "N", "F">>

tagEXTXMedia == <<"#">> \o sEXTXMedia \o <<":">>

tagEXTXIFrameStreamInf == <<"#">> \o sEXTXIFrameStreamInf \o <<":">>

\* delete(attrs, key)
Delete(a, key) == [x \in (DOMAIN a) \ {key} |-> a[x]]

buildStreamInfAttributes(streamingMD) ==
    LET a1 == IF Has(streamingMD, "bandwidth")
              THEN Put(EmptyDict, kBANDWIDTH, FormatV(streamingMD["bandwidth"]))
              ELSE EmptyDict
        a2 == IF IsA(streamingMD, "codec", "string")
              THEN Put(a1, kCODECS, streamingMD["codec"].v) ELSE a1
        a3 == IF Has(streamingMD, "frame_rate")
              THEN Put(a2, kFRAMERATE, FormatV(streamingMD["frame_rate"])) ELSE a2
    IN  IF Has(streamingMD, "width") /\ Has(streamingMD, "height")
        THEN Put(a3, kRESOLUTION,
                 FormatV(streamingMD["width"]) \o <<"x">> \o FormatV(streamingMD["height"]))
        ELSE a3

\* the concatenations of one member of each set, in order
RECURSIVE Product(_)
Product(sets) ==
    IF sets = <<>> THEN {<<>>}
    ELSE {h \o r : h \in Head(sets), r \in Product(Tail(sets))}

\* the loop over the timeline's HLS metadata: one line for each key other than
\* master_playlist, in any order of the keys
TimelineHeaderLines(timelineMetadata) ==
    LET rest == [k \in (DOMAIN timelineMetadata) \ {"master_playlist"} |->
                    timelineMetadata[k]]
    IN  {[n \in 1..Len(f) |->
            IF rest[f[n]].t = "nil" THEN <<"#">> \o KeyText(f[n])
            ELSE <<"#">> \o KeyText(f[n]) \o <<":">> \o FormatV(rest[f[n]])] :
         f \in KeyOrders(rest)}

IsVideoTrack(child) == IsTrack(child) /\ child.kind = TrackKindVideo

IsAudioTrack(child) == IsTrack(child) /\ child.kind = TrackKindAudio

dotM3U8 == <<".", "m", "3", "u", "8">>

\* the EXT-X-MEDIA line of an audio track
MediaLines(audioTrack) ==
    LET streamingMD == getStreamingMetadata(audioTrack.metadata)
        trackHLSMD  == getHLSMetadata(audioTrack.metadata)
        groupID == getStringOrDefault(streamingMD, "group_id", <<"a", "u", "d", "i", "o", "1">>)
        uri     == getStringOrDefault(trackHLSMD, "uri", audioTrack.name \o dotM3U8)
        a1 == Put(Put(Put(Put(EmptyDict, kTYPE, <<"A", "U", "D", "I", "O">>), kGROUPID, groupID),
                      kNAME, audioTrack.name), kURI, uri)
        a2 == IF IsA(streamingMD, "autoselect", "bool") /\ streamingMD["autoselect"].v
              THEN Put(a1, kAUTOSELECT, <<"Y", "E", "S">>) ELSE a1
        a3 == IF IsA(streamingMD, "default", "bool") /\ streamingMD["default"].v
              THEN Put(a2, kDEFAULT, <<"Y", "E", "S">>) ELSE a2
    IN  {<<tagEXTXMedia \o t>> : t \in AttributeListStrings(a3)}

\* an I-frame line that keeps all the attributes of the stream
IFrameLinesAll(videoTrack) ==
    LET trackHLSMD == getHLSMetadata(videoTrack.metadata)
        attrs == buildStreamInfAttributes(getStreamingMetadata(videoTrack.metadata))
    IN  IF ~IsA(trackHLSMD, "iframe_uri", "string") THEN {<<>>}
        ELSE {<<tagEXTXIFrameStreamInf \o t>> :
                 t \in AttributeListStrings(Put(attrs, kURI, trackHLSMD["iframe_uri"].v))}

\* the EXT-X-I-FRAME-STREAM-INF line of a video track, if it has an iframe_uri
IFrameLines(videoTrack) ==
    LET trackHLSMD == getHLSMetadata(videoTrack.metadata)
        attrs == buildStreamInfAttributes(getStreamingMetadata(videoTrack.metadata))
        kept  == Delete(Delete(Delete(Delete(attrs, kFRAMERATE), kAUDIO),
                               kSUBTITLES), kCLOSEDCAPTIONS)
    IN  IF ~IsA(trackHLSMD, "iframe_uri", "string") THEN {<<>>}
        ELSE {<<tagEXTXIFrameStreamInf \o t>> :
                 t \in AttributeListStrings(Put(kept, kURI, trackHLSMD["iframe_uri"].v))}

\* the search for a linked audio track, reading linked_tracks in the HLS
\* metadata of the video track
LinkedAudioHLS(videoTrack, audioTracks) ==
    LET trackMetadata == getHLSMetadata(videoTrack.metadata)
        linkedTracks ==
            IF IsA(trackMetadata, "linked_tracks", "list")
            THEN trackMetadata["linked_tracks"].v ELSE <<>>
        hits == {k \in 1..Len(audioTracks) :
                    \E j \in 1..Len(linkedTracks) :
                        /\ linkedTracks[j].t = "string"
                        /\ linkedTracks[j].v = audioTracks[k].name}
    IN  IF hits = {} THEN 0 ELSE CHOOSE k \in hits : \A h \in hits : k <= h

\* the search for a linked audio track that keeps the last match instead of
\* the first
LinkedAudioLast(videoTrack, audioTracks) ==
    LET trackMetadata == videoTrack.metadata
        linkedTracks ==
            IF IsA(trackMetadata, "linked_tracks", "list")
            THEN trackMetadata["linked_tracks"].v ELSE <<>>
        hits == {k \in 1..Len(audioTracks) :
                    \E j \in 1..Len(linkedTracks) :
                        /\ linkedTracks[j].t = "string"
                        /\ linkedTracks[j].v = audioTracks[k].name}
    IN  IF hits = {} THEN 0 ELSE CHOOSE k \in hits : \A h \in hits : h <= k

\* the first audio track, in track order, whose name is one of the strings of
\* the video track's linked_tracks; 0 when there is none
LinkedAudio(videoTrack, audioTracks) ==
    LET trackMetadata == videoTrack.metadata
        linkedTracks ==
            IF IsA(trackMetadata, "linked_tracks", "list")
            THEN trackMetadata["linked_tracks"].v ELSE <<>>
        hits == {k \in 1..Len(audioTracks) :
                    \E j \in 1..Len(linkedTracks) :
                        /\ linkedTracks[j].t = "string"
                        /\ linkedTracks[j].v = audioTracks[k].name}
    IN  IF hits = {} THEN 0 ELSE CHOOSE k \in hits : \A h \in hits : k <= h

\* the attributes of the EXT-X-STREAM-INF line of a video track
StreamInfAttributes(videoTrack, audioTracks) ==
    LET attrs == buildStreamInfAttributes(getStreamingMetadata(videoTrack.metadata))
        k == LinkedAudio(videoTrack, audioTracks)
        audioStreamingMD == getStreamingMetadata(audioTracks[k].metadata)
        audioGroupID   == getStringOrDefault(audioStreamingMD, "group_id", <<"a", "u", "d", "i", "o", "1">>)
        audioCodec     == getStringOrDefault(audioStreamingMD, "codec", <<>>)
        audioBandwidth == getIntOrDefault(audioStreamingMD, "bandwidth", 0)
        a1 == IF audioCodec # <<>> /\ Has(attrs, kCODECS)
              THEN Put(attrs, kCODECS, attrs[kCODECS] \o <<",">> \o audioCodec)
              ELSE attrs
        a2 == Put(a1, kAUDIO, audioGroupID)
    IN  IF k = 0 THEN attrs
        ELSE IF audioBandwidth > 0 /\ ~GetInt(a2, kBANDWIDTH).err
        THEN Put(a2, kBANDWIDTH, IntToStr(GetInt(a2, kBANDWIDTH).v + audioBandwidth))
        ELSE a2

\* the EXT-X-STREAM-INF line of a video track, its URI line and a blank line
StreamInfLines(videoTrack, audioTracks) ==
    LET trackHLSMD == getHLSMetadata(videoTrack.metadata)
        uri == getStringOrDefault(trackHLSMD, "uri", videoTrack.name \o dotM3U8)
    IN  {<<tagEXTXStreamInf \o t, uri, <<>>>> :
            t \in AttributeListStrings(StreamInfAttributes(videoTrack, audioTracks))}

\* encodeMasterPlaylist: the texts it may write for a timeline, as lines
encodeMasterPlaylist(t) ==
    LET videoTracks == SelectSeq(t.tracks, IsVideoTrack)
        audioTracks == SelectSeq(t.tracks, IsAudioTrack)
        iframeWritten ==
            \E k \in 1..Len(videoTracks) :
                IsA(getHLSMetadata(videoTracks[k].metadata), "iframe_uri", "string")
    IN  Product(<<{<<tagEXTM3U, tagEXTXVersion \o <<"6">>>>},
                  TimelineHeaderLines(getHLSMetadata(t.metadata)),
                  Product([k \in 1..Len(audioTracks) |-> MediaLines(audioTracks[k])]),
                  IF Len(audioTracks) > 0 THEN {<<<<>>>>} ELSE {<<>>},
                  Product([k \in 1..Len(videoTracks) |-> IFrameLines(videoTracks[k])]),
                  IF iframeWritten THEN {<<<<>>>>} ELSE {<<>>},
                  Product([k \in 1..Len(videoTracks) |->
                              StreamInfLines(videoTracks[k], audioTracks)])>>)

\* a master playlist asked for by the presence of the key alone
forceMasterPresent(t) == IsA(getHLSMetadata(t.metadata), "master_playlist", "bool")

\* master_playlist of the timeline's HLS metadata, when it is a bool
forceMaster(t) ==
    LET hlsMap == getHLSMetadata(t.metadata)
    IN  IsA(hlsMap, "master_playlist", "bool") /\ hlsMap["master_playlist"].v

ErrNoTracks == "timeline has no tracks"

ErrExpectedTrack == "expected Track"

\* Encode of a timeline without tracks: the error, and nothing written
EncodeNoTracks ==
    /\ pc \in {"decoded", "built"}
    /\ Len(timeline.tracks) = 0
    /\ err' = ErrNoTracks
    /\ pc' = "encode_failed"
    /\ UNCHANGED <<input, entries, i, st, timeline, output, arg, ret>>

\* an Encode that skips the single child that is not a track without an error
EncodeNotTrackSilent ==
    /\ pc \in {"decoded", "built"}
    /\ Len(timeline.tracks) = 1
    /\ ~forceMaster(timeline)
    /\ ~IsTrack(timeline.tracks[1])
    /\ err' = ErrNone
    /\ pc' = "encoded"
    /\ UNCHANGED <<input, entries, i, st, timeline, output, arg, ret>>

\* Encode of a timeline whose only child is not a track, no master playlist
\* asked for: the error, and nothing written
EncodeNotTrack ==
    /\ pc \in {"decoded", "built"}
    /\ Len(timeline.tracks) = 1
    /\ ~forceMaster(timeline)
    /\ ~IsTrack(timeline.tracks[1])
    /\ err' = ErrExpectedTrack
    /\ pc' = "encode_failed"
    /\ UNCHANGED <<input, entries, i, st, timeline, output, arg, ret>>

\* Encode of a timeline with several children, or with the master playlist
\* asked for
EncodeMaster ==
    /\ pc \in {"decoded", "built"}
    /\ Len(timeline.tracks) > 0
    /\ Len(timeline.tracks) # 1 \/ forceMaster(timeline)
    /\ output' \in encodeMasterPlaylist(timeline)
    /\ err' = ErrNone
    /\ pc' = "encoded"
    /\ UNCHANGED <<input, entries, i, st, timeline, arg, ret>>

\* Encode of a timeline with a single track, no master playlist asked for: the
\* track is written as a media playlist
Encode ==
    /\ pc \in {"decoded", "built"}
    /\ Len(timeline.tracks) = 1
    /\ ~forceMaster(timeline)
    /\ IsTrack(timeline.tracks[1])
    /\ output' \in encodeMediaPlaylist(timeline.tracks[1])
    /\ err' = ErrNone
    /\ pc' = "encoded"
    /\ UNCHANGED <<input, entries, i, st, timeline, arg, ret>>

NextRT == Next \/ Encode

\* the inputs of a pool: any text of at most n lines
Texts(pool, n) == StringsUpTo(pool, n)

\* the inputs of a pool: the header followed by at most n lines of the pool,
\* and the texts of at most one line without the header
Playlists(pool, n) ==
    {<<tagEXTM3U>> \o b : b \in StringsUpTo(pool, n)} \cup StringsUpTo(pool, 1)

\* the segment lines of a playlist after its header and a first EXTINF, which
\* makes it a media playlist; and the few texts that are none
MediaPlaylists(first, pool, n) ==
    {<<tagEXTM3U, first>> \o b : b \in StringsUpTo(pool, n)}
        \cup Playlists(pool, 1)

InitOver(inputs) ==
    /\ pc = "start"
    /\ input \in inputs
    /\ entries = <<>> /\ i = 0 /\ st = NoState
    /\ timeline = NilTimeline /\ err = ErrNone /\ output = <<>>
    /\ arg = NoArg /\ ret = NoRet

(* Texts the pools are made of *)

uriA == <<"a", ".", "t", "s">>
uriB == <<"b", ".", "t", "s">>
titleT == <<"T", "1">>
keyK1 == <<"M", "E", "T", "H", "O", "D", "=", "N", "O", "N", "E">>
keyK2 == <<"M", "E", "T", "H", "O", "D", "=", "A", "E", "S", "-", "1", "2", "8">>
dateD == <<"2", "0", "2", "3", "-", "0", "1", "-", "0", "1">>

lineExtinf == tagEXTINF \o <<"9", ".", "9", ",">>
lineExtinfTitle == tagEXTINF \o <<"5", ",">> \o titleT
lineExtinfBare == tagEXTINF \o <<"7">>
lineExtinfNeg == tagEXTINF \o <<"-", "5", ",">>
lineStreamInf == tagEXTXStreamInf \o <<"B", "A", "N", "D", "W", "I", "D", "T", "H", "=", "1">>
lineBlank == <<" ">>
lineComment == <<"#", " ", "c">>
lineJunk == <<"n", "o", "t", " ", "a", " ", "p", "l", "a", "y", "l", "i", "s", "t">>
lineKey1 == tagEXTXKey \o keyK1
lineKey2 == tagEXTXKey \o keyK2
lineDate == tagEXTXProgramDateTime \o dateD
lineDisc == tagEXTXDiscontinuity

\* header and playlist shape
PoolShape == {tagEXTM3U, lineExtinf, lineStreamInf, uriA, lineBlank, lineComment, lineJunk}

\* segments: titles, durations, discontinuities
PoolSeg == {lineExtinf, lineExtinfTitle, lineExtinfBare, lineExtinfNeg, uriA, uriB, lineDisc}

\* sticky and per-segment tags, after a first EXTINF with a title
PoolSticky == {uriA, lineKey1, lineKey2, lineDate, lineDisc}

Spec == InitOver(Texts(PoolShape, MaxLines)) /\ [][Next]_vars

SpecSeg == InitOver(Playlists(PoolSeg, MaxSegLines)) /\ [][Next]_vars

SpecSticky ==
    InitOver(MediaPlaylists(lineExtinfTitle, PoolSticky, MaxStickyLines)) /\ [][Next]_vars

lineRangeAt == tagEXTXByterange \o <<"7", "@", "3">>
lineRangeNext == tagEXTXByterange \o <<"5">>
lineRangeZero == tagEXTXByterange \o <<"4", "@", "0">>

PoolRange == {uriA, lineRangeAt, lineRangeNext, lineRangeZero}

SpecRange == InitOver(MediaPlaylists(lineExtinf, PoolRange, MaxRangeLines)) /\ [][Next]_vars

mapI == <<"i">>
mapJ == <<"j">>
lineMapRange ==
    tagEXTXMap \o <<"U", "R", "I", "=", "\"">> \o mapI \o <<"\"", ",">>
        \o <<"B", "Y", "T", "E", "R", "A", "N", "G", "E", "=", "\"", "2", "@", "1", "\"">>
lineMapPlain == tagEXTXMap \o <<"U", "R", "I", "=", "\"">> \o mapJ \o <<"\"">>

PoolMap == {uriA, lineMapRange, lineMapPlain}

SpecMap == InitOver(MediaPlaylists(lineExtinf, PoolMap, MaxMapLines)) /\ [][Next]_vars

\* fragmented media: segments with byteranges after an init segment
PoolFrag == {uriA, lineRangeAt, lineRangeNext, lineMapRange}

SpecFrag ==
    InitOver(MediaPlaylists(lineExtinf, PoolFrag, MaxFragLines)) /\ [][NextRT]_vars

lineVersion7 == tagEXTXVersion \o <<"7">>
lineVersion4 == tagEXTXVersion \o <<"4">>
lineTarget10 == tagEXTXTargetDuration \o <<"1", "0">>
lineTargetBad == tagEXTXTargetDuration \o <<"x">>
lineSeq2 == tagEXTXMediaSequence \o <<"2">>
lineTypeVod == tagEXTXPlaylistType \o <<"V", "O", "D">>
lineExtinfSame == tagEXTINF \o <<"5", ",">> \o uriA

\* the playlist tags before the segments: none, all four, and a malformed
\* target duration with the version given twice
HeadNone == <<>>
HeadAll == <<lineVersion7, lineTarget10, lineSeq2, lineTypeVod>>
HeadOdd == <<lineTargetBad, lineVersion7, lineVersion4>>

PoolRT == {lineExtinf, lineExtinfSame, lineExtinfNeg, uriA, uriB}

RoundTripInputs(n) ==
    {<<tagEXTM3U>> \o h \o b :
        h \in {HeadNone, HeadAll, HeadOdd}, b \in StringsUpTo(PoolRT, n)}
        \cup StringsUpTo(PoolRT, 1)

SpecRT == InitOver(RoundTripInputs(MaxRTLines)) /\ [][NextRT]_vars

----------------------------------------------------------------------------
(* The byterange codec under test: a value is formatted and parsed back, *)
(* a text is parsed and formatted back.                                    *)

BrAlphabet == {"0", "1", "7", "@", "-", "x"}

BrCounts == -3..12

BrOffsets == 0..6

InitBR ==
    /\ input = <<>> /\ entries = <<>> /\ i = 0 /\ st = NoState
    /\ timeline = NilTimeline /\ err = ErrNone /\ output = <<>>
    /\ ret = NoRet
    /\ \/ /\ pc = "br_value"
          /\ \E c \in BrCounts, o \in BrOffsets :
                arg = [from |-> "value", br |-> Byterange(c, o), text |-> <<>>]
       \/ /\ pc = "br_text"
          /\ \E t \in StringsUpTo(BrAlphabet, MaxBrLen) :
                arg = [from |-> "text", br |-> NilBR, text |-> t]

\* b.String() of the value under test
BRString ==
    /\ pc = "br_value"
    /\ arg' = [arg EXCEPT !.text = ByterangeString(arg.br)]
    /\ pc' = "br_text"
    /\ UNCHANGED <<input, entries, i, st, timeline, err, output, ret>>

\* NewByterangeFromString(text)
BRParse ==
    /\ pc = "br_text"
    /\ ret' = [ret EXCEPT !.parsed = NewByterangeFromString(arg.text)]
    /\ pc' = "br_parsed"
    /\ UNCHANGED <<input, entries, i, st, timeline, err, output, arg>>

\* br.String() of the parsed value
BRRestring ==
    /\ pc = "br_parsed"
    /\ ~ret.parsed.err
    /\ ret' = [ret EXCEPT !.str = ByterangeString(ret.parsed.br)]
    /\ pc' = "br_done"
    /\ UNCHANGED <<input, entries, i, st, timeline, err, output, arg>>

NextBR == BRString \/ BRParse \/ BRRestring

SpecBR == InitBR /\ [][NextBR]_vars

----------------------------------------------------------------------------
(* The attribute parser under test: a list of attributes with distinct    *)
(* names is written with commas between them and parsed.                   *)

\* one attribute NAME=value or NAME="value"
Attribute(key, value, quoted) ==
    [key |-> key, value |-> value,
     text |-> key \o <<"=">> \o
              (IF quoted THEN <<"\"">> \o value \o <<"\"">> ELSE value)]

attrURI ==
    Attribute(<<"U", "R", "I">>,
              <<"i", "n", "i", "t", ".", "m", "p", "4">>, TRUE)

attrByterange ==
    Attribute(<<"B", "Y", "T", "E", "R", "A", "N", "G", "E">>,
              <<"6", "5", "2", "@", "0">>, TRUE)

attrBandwidth ==
    Attribute(<<"B", "A", "N", "D", "W", "I", "D", "T", "H">>,
              <<"1", "2", "8", "0", "0", "0", "0">>, FALSE)

attrResolution ==
    Attribute(<<"R", "E", "S", "O", "L", "U", "T", "I", "O", "N">>,
              <<"1", "9", "2", "0", "x", "1", "0", "8", "0">>, FALSE)

attrGroupID ==
    Attribute(<<"G", "R", "O", "U", "P", "-", "I", "D">>,
              <<"a", "u", "d">>, TRUE)

attrFrameRate ==
    Attribute(<<"F", "R", "A", "M", "E", "-", "R", "A", "T", "E">>,
              <<"2", "9", ".", "9", "7">>, FALSE)

PoolAttr ==
    {attrURI, attrByterange, attrBandwidth, attrResolution, attrGroupID, attrFrameRate}

\* the lists of up to n distinct attributes, in every order
AttrLists(n) ==
    {l \in StringsUpTo(PoolAttr, n) :
        \A a, b \in 1..Len(l) : a # b => l[a] # l[b]}

InitAttr ==
    /\ pc = "attr_text"
    /\ input = <<>> /\ entries = <<>> /\ i = 0 /\ st = NoState
    /\ timeline = NilTimeline /\ err = ErrNone /\ output = <<>>
    /\ ret = NoRet
    /\ \E l \in AttrLists(MaxAttrs) :
          arg = [from |-> "attrs", list |-> l,
                 text |-> Join([k \in 1..Len(l) |-> l[k].text], <<",">>)]

\* ParseAttributeList(text)
ParseAttrs ==
    /\ pc = "attr_text"
    /\ ret' = [attrs |-> ParseAttributeList(arg.text)]
    /\ pc' = "attr_done"
    /\ UNCHANGED <<input, entries, i, st, timeline, err, output, arg>>

NextAttr == ParseAttrs

SpecAttr == InitAttr /\ [][NextAttr]_vars

----------------------------------------------------------------------------
(* The input as the claims read it: its lines, classified by their text   *)
(* alone.                                                                  *)

RECURSIVE SortedSeq(_)
SortedSeq(S) ==
    IF S = {} THEN <<>> ELSE <<MinOf(S)>> \o SortedSeq(S \ {MinOf(S)})

RefLine(k) == TrimSpace(input[k])

RefIsBlank(k) == RefLine(k) = <<>>

RefIsTag(k, name) ==
    \/ RefLine(k) = <<"#">> \o name
    \/ HasPrefix(RefLine(k), <<"#">> \o name \o <<":">>)

RefIsURI(k) == RefLine(k) # <<>> /\ RefLine(k)[1] # "#"

\* the text after "#NAME:"
RefValue(k, name) == Drop(RefLine(k), Len(name) + 2)

\* the indices of the lines with a tag, and of the URI lines, in input order
RefTagIdx(name) == {k \in 1..Len(input) : RefIsTag(k, name)}

RefURIIdx == SortedSeq({k \in 1..Len(input) : RefIsURI(k)})

\* the line of the n-th URI reference, and of the one before it (0 if none)
RefURIAt(n) == RefURIIdx[n]

RefPrevURI(n) == IF n = 1 THEN 0 ELSE RefURIIdx[n - 1]

RefNonBlank == SortedSeq({k \in 1..Len(input) : ~RefIsBlank(k)})

RefHeaderOk == RefNonBlank # <<>> /\ RefIsTag(RefNonBlank[1], sEXTM3U)

RefFirst(name) == IF RefTagIdx(name) = {} THEN 0 ELSE MinOf(RefTagIdx(name))

RefLast(S) == IF S = {} THEN 0 ELSE MaxOf(S)

\* the input line of the entry the loop looks at next (Len(input) + 1 at the end)
RefPos ==
    IF pc = "loop" /\ i <= Len(RefNonBlank) THEN RefNonBlank[i] ELSE Len(input) + 1

Clips == timeline.tracks[1].children

\* a clip's value under a key of a namespace of its metadata, or none
ClipHas(c, ns, key) == Has(c.metadata, ns) /\ Has(c.metadata[ns].v, key)

ClipGet(c, ns, key) == c.metadata[ns].v[key].v

\* Clip.Duration as the encoder reads it: 0 when the clip has no source range
ClipDuration(c) == IF c.sourceRange.has THEN c.sourceRange.duration ELSE 0

----------------------------------------------------------------------------
(* Claims *)

\* C1: Decode returns the invalid-playlist error and no timeline whenever the
\* input has no non-blank line or its first non-blank line is not the #EXTM3U
\* tag, whatever lines follow.
C1_InvalidHeaderRejected ==
    (pc # "start" /\ ~RefHeaderOk) =>
        (pc = "done" /\ err = ErrInvalid /\ timeline.isNil)

\* C1 witness: a text without the header that holds an EXTINF tag was rejected
C1_Witness ==
    /\ pc = "done" /\ err = ErrInvalid
    /\ ~RefHeaderOk
    /\ RefTagIdx(sEXTINF) # {}
    /\ RefTagIdx(sEXTXStreamInf) # {}

\* C2: with a valid header, EXT-X-STREAM-INF before any EXTINF makes Decode
\* fail with the unsupported-playlist error (not the invalid-playlist one) and
\* no timeline; EXTINF before any EXT-X-STREAM-INF makes it decode the input
\* as a media playlist and succeed.
C2_StreamInfFirst ==
    /\ RefHeaderOk
    /\ RefFirst(sEXTXStreamInf) > 0
    /\ RefFirst(sEXTINF) = 0 \/ RefFirst(sEXTXStreamInf) < RefFirst(sEXTINF)

C2_ExtinfFirst ==
    /\ RefHeaderOk
    /\ RefFirst(sEXTINF) > 0
    /\ RefFirst(sEXTXStreamInf) = 0 \/ RefFirst(sEXTINF) < RefFirst(sEXTXStreamInf)

C2_PlaylistKind ==
    /\ (C2_StreamInfFirst /\ pc \notin {"start", "parsed"}) =>
          /\ pc = "done"
          /\ err = ErrUnsupported /\ err # ErrInvalid
          /\ timeline.isNil
    /\ (C2_ExtinfFirst /\ pc \notin {"start", "parsed"}) =>
          /\ pc \in {"loop", "decoded"}
          /\ err = ErrNone
          /\ pc = "decoded" => (~timeline.isNil /\ Len(timeline.tracks) = 1)

\* C2 witness: a playlist holding both tags, EXTINF first, was decoded
C2_Witness ==
    /\ pc = "decoded"
    /\ C2_ExtinfFirst
    /\ RefFirst(sEXTXStreamInf) > 0

\* the EXTINF tags staged for the n-th URI line: those since the URI line before
C3_Extinfs(n) == {k \in (RefPrevURI(n) + 1)..(RefURIAt(n) - 1) : RefIsTag(k, sEXTINF)}

C3_ExtinfDuration(k) == ParseFloat(TrimSpace(SplitN2(RefValue(k, sEXTINF), ",")[1])).v

C3_ExtinfTitle(k) ==
    IF Contains(RefValue(k, sEXTINF), ",")
    THEN TrimSpace(SplitN2(RefValue(k, sEXTINF), ",")[2]) ELSE <<>>

\* one track, one clip per URI line, in input order
C3_OneClipPerURI ==
    /\ Len(timeline.tracks) = 1
    /\ Len(Clips) = Len(RefURIIdx)
    /\ \A n \in 1..Len(RefURIIdx) : Clips[n].targetURL = RefLine(RefURIAt(n))

C3_NameOf(n, k) ==
    IF C3_ExtinfTitle(k) = <<>> THEN RefLine(RefURIAt(n)) ELSE C3_ExtinfTitle(k)

\* C3 as stated: the clips of the one track are the URI lines in order, and a
\* URI line with one EXTINF tag staged before it gives a clip with that
\* EXTINF's duration, named by its title or, the title empty, by the URI.
C3_AsStated ==
    pc = "decoded" =>
        /\ C3_OneClipPerURI
        /\ \A n \in 1..Len(RefURIIdx) : \A k \in C3_Extinfs(n) :
              Cardinality(C3_Extinfs(n)) = 1 =>
                  /\ ClipDuration(Clips[n]) = C3_ExtinfDuration(k)
                  /\ Clips[n].name = C3_NameOf(n, k)

\* C3 amended: the same, the duration being the EXTINF's only when it is
\* positive; a zero, negative or unparsable duration gives a clip without a
\* source range.
C3_ClipsFollowURILines ==
    pc = "decoded" =>
        /\ C3_OneClipPerURI
        /\ \A n \in 1..Len(RefURIIdx) : \A k \in C3_Extinfs(n) :
              Cardinality(C3_Extinfs(n)) = 1 =>
                  /\ Clips[n].sourceRange =
                        IF C3_ExtinfDuration(k) > 0
                        THEN [has |-> TRUE, duration |-> C3_ExtinfDuration(k)]
                        ELSE NoRange
                  /\ Clips[n].name = C3_NameOf(n, k)

\* C3 witness: two clips, the first named by its title, the second by its URI
\* and without a source range for a negative duration
C3_Witness ==
    /\ pc = "decoded"
    /\ Len(Clips) = 2
    /\ Cardinality(C3_Extinfs(1)) = 1 /\ Cardinality(C3_Extinfs(2)) = 1
    /\ Clips[1].name = titleT /\ Clips[1].sourceRange.has
    /\ Clips[2].name = uriB /\ ~Clips[2].sourceRange.has
    /\ \E k \in C3_Extinfs(2) : C3_ExtinfDuration(k) < 0

\* the discontinuity index of a clip: absent from its metadata means 0
C4_Index(c) ==
    IF ClipHas(c, metadataNamespace, "discontinuity_sequence")
    THEN ClipGet(c, metadataNamespace, "discontinuity_sequence") ELSE 0

C4_TagsBefore(k) == Cardinality({j \in RefTagIdx(sEXTXDiscontinuity) : j < k})

\* C4: the discontinuity index is non-decreasing along the clips, and that of
\* each clip is the number of EXT-X-DISCONTINUITY tags before its URI line.
C4_DiscontinuityIndex ==
    pc = "decoded" =>
        /\ Len(Clips) = Len(RefURIIdx)
        /\ \A n \in 1..Len(Clips) : C4_Index(Clips[n]) = C4_TagsBefore(RefURIAt(n))
        /\ \A n \in 1..(Len(Clips) - 1) : C4_Index(Clips[n]) <= C4_Index(Clips[n + 1])

\* C4 witness: the index rose between two clips, the first one at 0
C4_Witness ==
    /\ pc = "decoded"
    /\ Len(Clips) = 2
    /\ C4_Index(Clips[1]) = 0
    /\ C4_Index(Clips[2]) = 1

\* the value of the last tag of a name among the lines a+1 .. b-1, or empty
C5_LastValue(name, a, b) ==
    LET at == {k \in RefTagIdx(name) : a < k /\ k < b}
    IN  IF at = {} THEN <<>> ELSE TrimSpace(RefValue(MaxOf(at), name))

C5_ClipText(c, key) ==
    IF ClipHas(c, metadataNamespace, key) THEN ClipGet(c, metadataNamespace, key)
    ELSE <<>>

C8_IsDecimalText(t) ==
    LET d == IF t # <<>> /\ t[1] = "-" THEN Tail(t) ELSE t
    IN  /\ d # <<>>
        /\ AllDigits(d)
        /\ d[1] = "0" => (Len(d) = 1 /\ d = t)

\* C8: a decimal text parses to a byterange that formats back to the same
\* text, the offset 0 being left out; and a byterange with a positive offset
\* formats to a text that parses back to the same count and offset.
C8_ByterangeRoundTrip ==
    /\ (pc = "br_done" /\ arg.from = "value" /\ arg.br.Offset = 0) =>
          /\ C8_IsDecimalText(arg.text)
          /\ ret.str = arg.text
    /\ (pc \in {"br_parsed", "br_done"} /\ arg.from = "text"
            /\ C8_IsDecimalText(arg.text)) =>
          /\ ~ret.parsed.err
          /\ ret.parsed.br.Offset = 0
          /\ pc = "br_done" => ret.str = arg.text
    /\ (pc \in {"br_parsed", "br_done"} /\ arg.from = "value"
            /\ arg.br.Offset > 0) =>
          /\ ~ret.parsed.err
          /\ ret.parsed.br = arg.br

\* C8 witness: a value with a positive offset went through both directions,
\* its text holding the "@"
C8_Witness ==
    /\ pc = "br_done"
    /\ arg.from = "value"
    /\ arg.br.Offset > 0 /\ arg.br.Count > 9
    /\ Contains(arg.text, "@")
    /\ ret.str = arg.text

\* the tags of a name staged for the n-th URI line
C6_Staged(n, name) ==
    {k \in RefTagIdx(name) : RefPrevURI(n) < k /\ k < RefURIAt(n)}

C6_Tag(k) == NewByterangeFromString(TrimSpace(RefValue(k, sEXTXByterange)))

C6_HasRange(c) == ClipHas(c, streamingMetadataNamespace, "byte_count")

C6_Count(c) == ClipGet(c, streamingMetadataNamespace, "byte_count")

C6_Offset(c) == ClipGet(c, streamingMetadataNamespace, "byte_offset")

\* offset + count of the last clip before the n-th that carries a byterange
C6_LastEnd(n) ==
    LET with == {m \in 1..(n - 1) : C6_HasRange(Clips[m])}
    IN  IF with = {} THEN 0
        ELSE C6_Offset(Clips[MaxOf(with)]) + C6_Count(Clips[MaxOf(with)])

\* C6: a segment with one well-formed EXT-X-BYTERANGE tag gets the tag's count
\* as byte_count and, as byte_offset, the end of the last segment that carried
\* a byterange when the tag's offset is omitted or zero and that end is
\* positive, the tag's offset otherwise; a segment with no such tag gets none.
C6_ContiguousRange ==
    pc = "decoded" =>
        /\ Len(Clips) = Len(RefURIIdx)
        /\ \A n \in 1..Len(Clips) :
              /\ C6_Staged(n, sEXTXByterange) = {} => ~C6_HasRange(Clips[n])
              /\ \A k \in C6_Staged(n, sEXTXByterange) :
                    (Cardinality(C6_Staged(n, sEXTXByterange)) = 1 /\ ~C6_Tag(k).err) =>
                        /\ C6_HasRange(Clips[n])
                        /\ C6_Count(Clips[n]) = C6_Tag(k).br.Count
                        /\ C6_Offset(Clips[n]) =
                              IF C6_Tag(k).br.Offset = 0 /\ C6_LastEnd(n) > 0
                              THEN C6_LastEnd(n)
                              ELSE C6_Tag(k).br.Offset

\* C6 witness: a range at 3 of 7 bytes, a segment without a range, then a
\* range without an offset, which starts at 10
C6_Witness ==
    /\ pc = "decoded"
    /\ Len(Clips) = 3
    /\ C6_HasRange(Clips[1]) /\ C6_Offset(Clips[1]) = 3 /\ C6_Count(Clips[1]) = 7
    /\ ~C6_HasRange(Clips[2])
    /\ C6_HasRange(Clips[3]) /\ C6_Offset(Clips[3]) = 10 /\ C6_Count(Clips[3]) = 5

C7_Attrs(k) == ParseAttributeList(RefValue(k, sEXTXMap))

C7_HasInitRange(c) == ClipHas(c, streamingMetadataNamespace, "init_byterange")

C7_InitURI(c) ==
    IF ClipHas(c, streamingMetadataNamespace, "init_uri")
    THEN ClipGet(c, streamingMetadataNamespace, "init_uri") ELSE <<>>

\* the last EXT-X-MAP line before the n-th URI line, 0 if there is none
C7_LastMap(n) == RefLast({k \in RefTagIdx(sEXTXMap) : k < RefURIAt(n)})

\* C7: every segment after an EXT-X-MAP tag carries the URI and the byterange
\* of the last EXT-X-MAP tag before it, and no init-segment byterange when
\* that tag has no BYTERANGE attribute.
C7_InitSegmentOfLastMap ==
    pc = "decoded" =>
        \A n \in 1..Len(Clips) :
            LET k == C7_LastMap(n)
            IN  IF k = 0
                THEN C7_InitURI(Clips[n]) = <<>> /\ ~C7_HasInitRange(Clips[n])
                ELSE /\ C7_InitURI(Clips[n]) = Get(C7_Attrs(k), <<"U", "R", "I">>)
                     /\ C7_HasInitRange(Clips[n])
                           <=> Has(C7_Attrs(k), <<"B", "Y", "T", "E", "R", "A", "N", "G", "E">>)

\* C7 witness: a segment after a MAP tag without BYTERANGE still carries the
\* byterange of the MAP tag before
C7_Witness ==
    /\ pc = "decoded"
    /\ Len(Clips) = 1
    /\ C7_LastMap(1) > 0
    /\ RefLine(C7_LastMap(1)) = lineMapPlain
    /\ C7_InitURI(Clips[1]) = mapJ
    /\ C7_HasInitRange(Clips[1])

\* the mapping a list of attributes stands for, whatever their order
C9_Expected(l) ==
    [k \in {l[n].key : n \in 1..Len(l)} |->
        (CHOOSE a \in {l[n] : n \in 1..Len(l)} : a.key = k).value]

\* C9: from a comma-joined list of well-formed quoted-string, resolution and
\* numeric attributes with distinct names, ParseAttributeList recovers every
\* name with its exact value, quotes stripped; the mapping depends on the
\* attributes only, not on their order.
C9_AllAttributesRecovered ==
    pc = "attr_done" => ret.attrs = C9_Expected(arg.list)

\* C9 witness: an attribute whose name holds a hyphen is missing from the result
C9_Witness ==
    /\ pc = "attr_done"
    /\ arg.list = <<attrURI, attrGroupID, attrBandwidth>>
    /\ DOMAIN ret.attrs = {attrURI.key, attrBandwidth.key}

\* the output as the claims read it
OutIsTag(k, name) ==
    \/ output[k] = <<"#">> \o name
    \/ HasPrefix(output[k], <<"#">> \o name \o <<":">>)

OutValue(k, name) == Drop(output[k], Len(name) + 2)

OutTagIdx(name) == {k \in 1..Len(output) : OutIsTag(k, name)}

OutURIIdx ==
    SortedSeq({k \in 1..Len(output) : output[k] # <<>> /\ output[k][1] # "#"})

OutPrevURI(n) == IF n = 1 THEN 0 ELSE OutURIIdx[n - 1]

\* the EXTINF lines the output holds for its n-th URI line
C10_OutExtinfs(n) ==
    {k \in OutTagIdx(sEXTINF) : OutPrevURI(n) < k /\ k < OutURIIdx[n]}

\* the value of the last tag of a name in the input
C10_InValue(name) == TrimSpace(RefValue(MaxOf(RefTagIdx(name)), name))

\* a playlist tag is written once, with the given value, or not at all
C10_Written(name, present, value) ==
    IF present
    THEN /\ Cardinality(OutTagIdx(name)) = 1
         /\ \A k \in OutTagIdx(name) : OutValue(k, name) = value
    ELSE OutTagIdx(name) = {}

C10_SameURIs ==
    /\ Len(OutURIIdx) = Len(RefURIIdx)
    /\ \A n \in 1..Len(OutURIIdx) : output[OutURIIdx[n]] = RefLine(RefURIAt(n))

\* C10 as stated: Decode then Encode writes the four playlist tags of the
\* input with the same values, the same URI lines in the same order, and
\* before each an EXTINF with the duration and the title of the input's.
C10_AsStated ==
    pc = "encoded" =>
        /\ \A name \in {sEXTXVersion, sEXTXTargetDuration, sEXTXMediaSequence,
                        sEXTXPlaylistType} :
              RefTagIdx(name) # {} => C10_Written(name, TRUE, C10_InValue(name))
        /\ C10_SameURIs
        /\ \A n \in 1..Len(OutURIIdx) :
              /\ C10_OutExtinfs(n) = {OutURIIdx[n] - 1}
              /\ \A k \in C3_Extinfs(n) :
                    Cardinality(C3_Extinfs(n)) = 1 =>
                        LET parts == SplitN2(OutValue(OutURIIdx[n] - 1, sEXTINF), ",")
                        IN  /\ ParseFloat(parts[1]).v = C3_ExtinfDuration(k)
                            /\ parts[2] = C3_ExtinfTitle(k)

C10_Number(name) == IntToStr(Atoi(C10_InValue(name)).v)

\* C10 amended: the version is written always, 3 when the input has none; the
\* target duration and the media sequence are written when the input has
\* them, and the three as integers, 0 for a value that is no integer; the
\* playlist type is written as it is; the URI lines are the same in the same
\* order, each right after an EXTINF whose duration is the input's with six
\* decimals, 0.000000 if it is not positive, and whose title is the input's
\* unless that is the URI itself, which is left out.
C10_RoundTrip ==
    pc = "encoded" =>
        /\ output[1] = tagEXTM3U /\ output[Len(output)] = tagEXTXEndList
        /\ C10_Written(sEXTXVersion, TRUE,
                       IF RefTagIdx(sEXTXVersion) # {} THEN C10_Number(sEXTXVersion)
                       ELSE IntToStr(defaultHLSVersion))
        /\ \A name \in {sEXTXTargetDuration, sEXTXMediaSequence} :
              C10_Written(name, RefTagIdx(name) # {},
                          IF RefTagIdx(name) # {} THEN C10_Number(name) ELSE <<>>)
        /\ C10_Written(sEXTXPlaylistType, RefTagIdx(sEXTXPlaylistType) # {},
                       IF RefTagIdx(sEXTXPlaylistType) # {}
                       THEN C10_InValue(sEXTXPlaylistType) ELSE <<>>)
        /\ C10_SameURIs
        /\ \A n \in 1..Len(OutURIIdx) :
              /\ C10_OutExtinfs(n) = {OutURIIdx[n] - 1}
              /\ \A k \in C3_Extinfs(n) :
                    Cardinality(C3_Extinfs(n)) = 1 =>
                        OutValue(OutURIIdx[n] - 1, sEXTINF) =
                            FormatFloat6(IF C3_ExtinfDuration(k) > 0
                                         THEN C3_ExtinfDuration(k) ELSE 0)
                            \o <<",">>
                            \o (IF C3_ExtinfTitle(k) = RefLine(RefURIAt(n))
                                THEN <<>> ELSE C3_ExtinfTitle(k))

\* C10 witness: the four tags and two segments went round, one with a title
\* and one whose title was its URI
C10_Witness ==
    /\ pc = "encoded"
    /\ \A name \in {sEXTXVersion, sEXTXTargetDuration, sEXTXMediaSequence,
                    sEXTXPlaylistType} : OutTagIdx(name) # {} /\ RefTagIdx(name) # {}
    /\ Len(OutURIIdx) = 2
    /\ output[OutURIIdx[1]] = uriB
    /\ output[OutURIIdx[1] - 1] = tagEXTINF \o FormatFloat6(5 * MicroScale) \o <<",">> \o uriA
    /\ output[OutURIIdx[2]] = uriA
    /\ output[OutURIIdx[2] - 1] = tagEXTINF \o FormatFloat6(5 * MicroScale) \o <<",">>
    /\ input[Len(input) - 1] = lineExtinfSame

\* C11: Decode then Encode writes an EXT-X-BYTERANGE line for every segment
\* that had a byterange, and an EXT-X-MAP line when the segments had an init
\* segment.
C11_FragmentedRoundTrip ==
    pc = "encoded" =>
        /\ Cardinality(OutTagIdx(sEXTXByterange))
              = Cardinality({n \in 1..Len(Clips) : C6_HasRange(Clips[n])})
        /\ (\E n \in 1..Len(Clips) : C7_InitURI(Clips[n]) # <<>>)
              => OutTagIdx(sEXTXMap) # {}

\* C11 witness: a segment with a byterange and an init segment was decoded,
\* and the output written has neither line
C11_Witness ==
    /\ pc = "encoded"
    /\ Len(Clips) = 1
    /\ C6_HasRange(Clips[1]) /\ C6_Count(Clips[1]) = 7 /\ C6_Offset(Clips[1]) = 3
    /\ C7_InitURI(Clips[1]) = mapI /\ C7_HasInitRange(Clips[1])
    /\ OutTagIdx(sEXTXByterange) = {} /\ OutTagIdx(sEXTXMap) = {}
    /\ output = <<tagEXTM3U, tagEXTXVersion \o <<"3">>,
                  tagEXTINF \o FormatFloat6(9900000) \o <<",">>, uriA, tagEXTXEndList>>

----------------------------------------------------------------------------
(* The encoder under test: Encode of a timeline built by the caller, as   *)
(* the tests build theirs: any children of the pool under the track       *)
(* container, each at most once, and any timeline metadata of the pool.   *)

clipPlain ==
    [name |-> titleT, sourceRange |-> [has |-> TRUE, duration |-> 5 * MicroScale],
     targetURL |-> uriA, metadata |-> EmptyDict, refMetadata |-> EmptyDict]

clipRange ==
    [name |-> uriB, sourceRange |-> NoRange, targetURL |-> uriB,
     metadata |-> Put(EmptyDict, metadataNamespace,
                      MapV(Put(EmptyDict, "byterange",
                               MapV(Put(Put(EmptyDict, "count", Int64V(7)),
                                        "offset", Int64V(3)))))),
     refMetadata |-> EmptyDict]

gapChild == [gap |-> TRUE]

\* a video track that links the audio track a1 at the top level of its metadata
trackLinked ==
    [name |-> <<"v", "1">>, kind |-> TrackKindVideo,
     metadata |->
        Put(Put(Put(EmptyDict, streamingMetadataNamespace,
                    MapV(Put(Put(EmptyDict, "bandwidth", IntV(123456)),
                             "codec", StrV(<<"a", "v", "c", "1">>)))),
                metadataNamespace,
                MapV(Put(Put(EmptyDict, "uri", StrV(<<"v", "1", "/", "x", ".", "m", "3", "u", "8">>)),
                         "version", IntV(7)))),
            "linked_tracks", ListV(<<StrV(<<"a", "1">>)>>)),
     children |-> <<clipRange, gapChild, clipPlain>>]

\* a video track with an I-frame playlist and a frame rate
trackIFrame ==
    [name |-> <<"v", "2">>, kind |-> TrackKindVideo,
     metadata |->
        Put(Put(EmptyDict, streamingMetadataNamespace,
                MapV(Put(Put(EmptyDict, "bandwidth", IntV(500)),
                         "frame_rate", FloatV(23976000)))),
            metadataNamespace,
            MapV(Put(Put(EmptyDict, "iframe_uri", StrV(<<"v", "2", "/", "i", ".", "m", "3", "u", "8">>)),
                     "target_duration", FloatV(10 * MicroScale)))),
     children |-> <<clipPlain>>]

\* a video track that names the audio track a1 in its HLS metadata
trackHLSLinked ==
    [name |-> <<"v", "3">>, kind |-> TrackKindVideo,
     metadata |->
        Put(Put(EmptyDict, streamingMetadataNamespace,
                MapV(Put(Put(EmptyDict, "bandwidth", IntV(123456)),
                         "codec", StrV(<<"a", "v", "c", "1">>)))),
            metadataNamespace,
            MapV(Put(EmptyDict, "linked_tracks", ListV(<<StrV(<<"a", "1">>)>>)))),
     children |-> <<>>]

trackAudio ==
    [name |-> <<"a", "1">>, kind |-> TrackKindAudio,
     metadata |->
        Put(Put(EmptyDict, streamingMetadataNamespace,
                MapV(Put(Put(Put(EmptyDict, "bandwidth", IntV(12345)),
                             "codec", StrV(<<"m", "p", "4", "a">>)),
                         "group_id", StrV(<<"g", "1">>)))),
            metadataNamespace, MapV(Put(EmptyDict, "uri", StrV(<<"a", "1", "/", "x", ".", "m", "3", "u", "8">>)))),
     children |-> <<gapChild>>]

PoolChildren == {trackLinked, trackIFrame, trackHLSLinked, trackAudio, clipPlain}

metaMaster ==
    Put(EmptyDict, metadataNamespace, MapV(Put(EmptyDict, "master_playlist", BoolV(TRUE))))

metaNotMaster ==
    Put(EmptyDict, metadataNamespace, MapV(Put(EmptyDict, "master_playlist", BoolV(FALSE))))

metaMasterTags ==
    Put(EmptyDict, metadataNamespace,
        MapV(Put(Put(Put(EmptyDict, "master_playlist", BoolV(TRUE)),
                     "EXT-X-INDEPENDENT-SEGMENTS", NilV),
                 "EXT-X-START", StrV(<<"T", "I", "M", "E", "-", "O", "F", "F", "S", "E", "T", "=", "0">>))))

PoolTimelineMetadata ==
    {EmptyDict, metaMaster, metaNotMaster, metaMasterTags}

\* the timelines with at most n children of the pool, each child at most once
Timelines(n) ==
    {[isNil |-> FALSE, name |-> "t", metadata |-> md, tracks |-> ch] :
        md \in PoolTimelineMetadata,
        ch \in {s \in StringsUpTo(PoolChildren, n) :
                   \A x, y \in 1..Len(s) : x # y => s[x] # s[y]}}

InitEnc ==
    /\ pc = "built"
    /\ timeline \in Timelines(MaxTracks)
    /\ input = <<>> /\ entries = <<>> /\ i = 0 /\ st = NoState
    /\ err = ErrNone /\ output = <<>>
    /\ arg = NoArg /\ ret = NoRet

NextEnc == EncodeNoTracks \/ EncodeNotTrack \/ Encode \/ EncodeMaster

SpecEnc == InitEnc /\ [][NextEnc]_vars

----------------------------------------------------------------------------
(* The output as the claims read it *)

\* the text written is a media playlist: it ends with the end-list tag
IsMediaOutput == output # <<>> /\ output[Len(output)] = tagEXTXEndList

\* the text written is a master playlist: the header #EXTM3U, then
\* #EXT-X-VERSION:6, and neither segments nor an end-list tag
IsMasterOutput ==
    /\ Len(output) >= 2
    /\ output[1] = tagEXTM3U
    /\ output[2] = tagEXTXVersion \o <<"6">>
    /\ OutTagIdx(sEXTINF) = {}
    /\ \A k \in 1..Len(output) : output[k] # tagEXTXEndList

\* the timeline's HLS metadata holds master_playlist with the value true
C12_Override ==
    /\ IsA(timeline.metadata, metadataNamespace, "map")
    /\ Has(timeline.metadata[metadataNamespace].v, "master_playlist")
    /\ timeline.metadata[metadataNamespace].v["master_playlist"] = BoolV(TRUE)

\* C12: once Encode has returned, a timeline with exactly one track and no
\* master_playlist override set to true has been written as a media playlist;
\* a timeline with more than one track, or with a single track and the override
\* set to true, has been written as a master playlist, whose first two lines
\* are #EXTM3U and #EXT-X-VERSION:6; and a media playlist is written in no
\* other case.  The tracks are the children of the track container.
C12_ModeSelection ==
    LET n == Len(timeline.tracks)
    IN  pc \in {"encoded", "encode_failed"} =>
          /\ (n = 1 /\ IsTrack(timeline.tracks[1]) /\ ~C12_Override)
                => pc = "encoded" /\ IsMediaOutput
          /\ (n > 1 \/ (n = 1 /\ C12_Override))
                => pc = "encoded" /\ IsMasterOutput
          /\ IsMediaOutput => n = 1 /\ ~C12_Override /\ ~IsMasterOutput

C12_Witness ==
    /\ pc = "encoded"
    /\ Len(timeline.tracks) = 1
    /\ C12_Override
    /\ IsMasterOutput

\* strings.Contains(s, sub)
StringsContains(s, sub) == \E k \in 0..Len(s) : HasPrefix(Drop(s, k), sub)

\* the lines of the output with the tag, in order
OutTagLines(name) == SelectSeq(output, LAMBDA l : HasPrefix(l, <<"#">> \o name \o <<":">>))

\* the iframe_uri values of the video tracks that have one, in track order
C13_IFrameURIs ==
    LET video == SelectSeq(timeline.tracks, IsVideoTrack)
        with  == SelectSeq(video,
                     LAMBDA v : /\ IsA(v.metadata, metadataNamespace, "map")
                                /\ IsA(v.metadata[metadataNamespace].v, "iframe_uri", "string"))
    IN  [k \in 1..Len(with) |-> with[k].metadata[metadataNamespace].v["iframe_uri"].v]

\* C13: in a master playlist there is exactly one #EXT-X-I-FRAME-STREAM-INF
\* line for each video track whose HLS metadata has an iframe_uri, in track
\* order, and none for the other tracks; the line has none of the attributes
\* FRAME-RATE, AUDIO, SUBTITLES and CLOSED-CAPTIONS, and its URI attribute is
\* the track's iframe URI.
C13_IFrameLines ==
    (pc = "encoded" /\ IsMasterOutput) =>
        LET lines == OutTagLines(sEXTXIFrameStreamInf)
        IN  /\ Len(lines) = Len(C13_IFrameURIs)
            /\ \A k \in 1..Len(lines) :
                  /\ \A a \in {kFRAMERATE, kAUDIO, kSUBTITLES, kCLOSEDCAPTIONS} :
                        ~StringsContains(lines[k], a \o <<"=">>)
                  /\ \/ StringsContains(lines[k],
                            kURI \o <<"=", "\"">> \o C13_IFrameURIs[k] \o <<"\"">>)
                     \/ StringsContains(lines[k], kURI \o <<"=">> \o C13_IFrameURIs[k])

C13_Witness ==
    /\ pc = "encoded" /\ IsMasterOutput
    /\ Len(C13_IFrameURIs) = 1
    /\ Len(SelectSeq(timeline.tracks, IsVideoTrack)) = 2
    /\ Len(OutTagLines(sEXTXIFrameStreamInf)) = 1
    /\ \E k \in 1..Len(output) : StringsContains(output[k], kFRAMERATE \o <<"=">>)

\* the line has the attribute key with exactly the text value, quoted or not
OutHasAttr(line, key, value) ==
    \E t \in {key \o <<"=">> \o value, key \o <<"=", "\"">> \o value \o <<"\"">>} :
        \E k \in 1..Len(line) :
            /\ line[k] \in {":", ","}
            /\ HasPrefix(Drop(line, k), t)
            /\ (Len(line) = k + Len(t) \/ line[k + Len(t) + 1] = ",")

\* the names a video track lists as linked_tracks: at the top level of its
\* metadata, or in its HLS metadata
C14_LinkedNames(v, where) ==
    LET d == IF where = "HLS"
             THEN (IF IsA(v.metadata, metadataNamespace, "map")
                   THEN v.metadata[metadataNamespace].v ELSE EmptyDict)
             ELSE v.metadata
    IN  IF Has(d, "linked_tracks") /\ d["linked_tracks"].t = "list"
        THEN {d["linked_tracks"].v[j].v : j \in 1..Len(d["linked_tracks"].v)}
        ELSE {}

\* the STREAM-INF lines of a master playlist carry, for each video track with a
\* bandwidth and a codec, the merged values when an audio track is linked and
\* the track's own values and no AUDIO when none is
C14_Merge(where) ==
    (pc = "encoded" /\ IsMasterOutput) =>
        LET video == SelectSeq(timeline.tracks, IsVideoTrack)
            audio == SelectSeq(timeline.tracks, IsAudioTrack)
            lines == OutTagLines(sEXTXStreamInf)
            sm(t) == t.metadata[streamingMetadataNamespace].v
        IN  /\ Len(lines) = Len(video)
            /\ \A k \in 1..Len(video) :
                  LET linked == {a \in 1..Len(audio) :
                                    audio[a].name \in C14_LinkedNames(video[k], where)}
                  IN  IF linked = {}
                      THEN /\ OutHasAttr(lines[k], kBANDWIDTH,
                                         IntToStr(sm(video[k])["bandwidth"].v))
                           /\ Has(sm(video[k]), "codec")
                                 => OutHasAttr(lines[k], kCODECS, sm(video[k])["codec"].v)
                           /\ ~StringsContains(lines[k], kAUDIO \o <<"=">>)
                      ELSE \E a \in linked :
                           /\ OutHasAttr(lines[k], kBANDWIDTH,
                                         IntToStr(sm(video[k])["bandwidth"].v
                                                  + sm(audio[a])["bandwidth"].v))
                           /\ Has(sm(video[k]), "codec")
                                 => OutHasAttr(lines[k], kCODECS,
                                               sm(video[k])["codec"].v \o <<",">>
                                                   \o sm(audio[a])["codec"].v)
                           /\ OutHasAttr(lines[k], kAUDIO, sm(audio[a])["group_id"].v)

\* C14 as stated: the video track's format (HLS) metadata lists linked_tracks
C14_AsStated == C14_Merge("HLS")

\* C14: in a master playlist, a video track whose metadata lists, at its top
\* level, linked_tracks containing the name of an audio track has a STREAM-INF
\* line with BANDWIDTH the sum of both bandwidths, CODECS the video codec, a
\* comma and the audio codec, and AUDIO the audio track's group id; a video
\* track without a linked audio track has its own bandwidth and codec and no
\* AUDIO attribute.
C14_LinkedMerge == C14_Merge("top")

C14_Witness ==
    /\ pc = "encoded" /\ IsMasterOutput
    /\ \E k \in 1..Len(output) :
          /\ OutHasAttr(output[k], kBANDWIDTH, <<"1", "3", "5", "8", "0", "1">>)
          /\ OutHasAttr(output[k], kCODECS, <<"a", "v", "c", "1", ",", "m", "p", "4", "a">>)
          /\ OutHasAttr(output[k], kAUDIO, <<"g", "1">>)

\* the track container's only child is not a track and no master playlist is
\* asked for
C15_LoneNonTrack ==
    /\ Len(timeline.tracks) = 1
    /\ ~IsTrack(timeline.tracks[1])
    /\ ~C12_Override

\* children of the wrong kind are skipped: a media playlist has one EXTINF
\* for each clip of the track, a master playlist one line for each audio and
\* each video track
C15_Skipped ==
    /\ IsMediaOutput =>
          Cardinality(OutTagIdx(sEXTINF))
              = Len(SelectSeq(timeline.tracks[1].children, IsClip))
    /\ IsMasterOutput =>
          /\ Len(OutTagLines(sEXTXMedia)) = Len(SelectSeq(timeline.tracks, IsAudioTrack))
          /\ Len(OutTagLines(sEXTXStreamInf))
                = Len(SelectSeq(timeline.tracks, IsVideoTrack))

\* C15 as stated: Encode fails exactly when the timeline has no tracks, then
\* with the error "no tracks" and nothing written; children of the wrong kind
\* are skipped.
C15_AsStated ==
    pc \in {"encoded", "encode_failed"} =>
        /\ pc = "encode_failed" <=> Len(timeline.tracks) = 0
        /\ pc = "encode_failed" => err = ErrNoTracks /\ output = <<>>
        /\ pc = "encoded" => C15_Skipped

\* C15: Encode fails exactly when the timeline has no tracks (error "no
\* tracks") or when the only child of the track container is not a track and no
\* master playlist is asked for (error "expected Track"); nothing is written
\* then.  In every other case Encode succeeds and children of the wrong kind
\* are skipped.
C15_StructuralFailures ==
    pc \in {"encoded", "encode_failed"} =>
        /\ pc = "encode_failed" <=> (Len(timeline.tracks) = 0 \/ C15_LoneNonTrack)
        /\ pc = "encode_failed" =>
              /\ output = <<>>
              /\ err = IF Len(timeline.tracks) = 0 THEN ErrNoTracks ELSE ErrExpectedTrack
        /\ pc = "encoded" => err = ErrNone /\ C15_Skipped

C15_Witness ==
    /\ pc = "encode_failed"
    /\ C15_LoneNonTrack
    /\ err = ErrExpectedTrack
    /\ output = <<>>

----------------------------------------------------------------------------
(* Encode called twice on the same timeline, each time with a writer of   *)
(* its own.                                                               *)

\* Encode as a whole: the errors and texts a call may return for a timeline
EncodeResults(t) ==
    IF Len(t.tracks) = 0 THEN {[err |-> ErrNoTracks, output |-> <<>>]}
    ELSE IF Len(t.tracks) = 1 /\ ~forceMaster(t)
    THEN IF ~IsTrack(t.tracks[1])
         THEN {[err |-> ErrExpectedTrack, output |-> <<>>]}
         ELSE {[err |-> ErrNone, output |-> o] : o \in encodeMediaPlaylist(t.tracks[1])}
    ELSE {[err |-> ErrNone, output |-> o] : o \in encodeMasterPlaylist(t)}

\* the second call, after the first has returned
EncodeAgain ==
    /\ pc \in {"encoded", "encode_failed"}
    /\ \E r \in EncodeResults(timeline) : ret' = [second |-> r]
    /\ pc' = "encoded_twice"
    /\ UNCHANGED <<input, entries, i, st, timeline, err, output, arg>>

InitTwice ==
    /\ pc = "built"
    /\ timeline \in Timelines(MaxTwiceTracks)
    /\ input = <<>> /\ entries = <<>> /\ i = 0 /\ st = NoState
    /\ err = ErrNone /\ output = <<>>
    /\ arg = NoArg /\ ret = NoRet

NextTwice == NextEnc \/ EncodeAgain

SpecTwice == InitTwice /\ [][NextTwice]_vars

\* C16: two Encode calls on the same timeline return the same error and write
\* the same text, byte for byte.
C16_EncodeDeterministic ==
    pc = "encoded_twice" => ret.second.err = err /\ ret.second.output = output

C16_Witness ==
    /\ pc = "encoded_twice"
    /\ IsMasterOutput
    /\ Len(output) = Len(ret.second.output)
    /\ \E k \in 1..Len(output) :
          /\ HasPrefix(output[k], tagEXTXMedia)
          /\ HasPrefix(ret.second.output[k], tagEXTXMedia)
          /\ output[k] # ret.second.output[k]

----------------------------------------------------------------------------
(* Two goroutines, each with a Decoder and an Encoder of its own, decode   *)
(* and encode their own text; their steps interleave in any order.  The    *)
(* state of an invocation is its receiver and the locals of its calls; the *)
(* package-level variables are the compiled patterns, which are only read. *)

InitProc(text) ==
    [pc |-> "start", input |-> text, entries |-> <<>>, i |-> 0, st |-> NoState,
     timeline |-> NilTimeline, err |-> ErrNone, output |-> <<>>]

\* the steps of Decode on the state of one invocation
DecodeSteps(p) ==
    CASE p.pc = "start" ->
            IF ~ValidHeader(ScanEntries(p.input))
            THEN {[p EXCEPT !.err = ErrInvalid, !.timeline = NilTimeline, !.pc = "done"]}
            ELSE {[p EXCEPT !.entries = ScanEntries(p.input), !.pc = "parsed"]}
      [] p.pc = "parsed" ->
            IF ~isMediaPlaylist(p.entries)
            THEN {[p EXCEPT !.err = ErrUnsupported, !.timeline = NilTimeline,
                            !.pc = "done"]}
            ELSE {[p EXCEPT !.st = InitState, !.i = 1, !.pc = "loop"]}
      [] p.pc = "loop" ->
            IF p.i <= Len(p.entries)
            THEN {[p EXCEPT !.st = DecodeStep(p.st, p.entries[p.i]), !.i = p.i + 1]}
            ELSE {[p EXCEPT !.timeline = BuildTimeline(p.st), !.err = ErrNone,
                            !.pc = "decoded"]}
      [] OTHER -> {}

\* the Encode of the timeline an invocation has decoded
EncodeSteps(p) ==
    IF p.pc = "decoded"
    THEN {[p EXCEPT !.err = r.err, !.output = r.output,
                    !.pc = IF r.err = ErrNone THEN "encoded" ELSE "encode_failed"] :
             r \in EncodeResults(p.timeline)}
    ELSE {}

\* the steps of an invocation
ProcSteps(p) == DecodeSteps(p) \cup EncodeSteps(p)

\* a step whose locals are package-level variables: the other invocations
\* see the decoder state it leaves
GoStepShared(procs, g, q) ==
    [h \in DOMAIN procs |->
        IF h = g THEN q
        ELSE IF procs[h].pc = "loop" /\ q.pc = "loop" THEN [procs[h] EXCEPT !.st = q.st]
        ELSE procs[h]]

\* a step of goroutine g, to the state q of its invocation: nothing of the
\* other invocations changes
GoStep(procs, g, q) == [procs EXCEPT ![g] = q]

Goroutines == {1, 2}

\* a step of a Decode
GoDecode ==
    /\ pc = "conc"
    /\ \E g \in Goroutines :
          /\ \E q \in DecodeSteps(arg.procs[g]) :
                arg' = [procs |-> GoStep(arg.procs, g, q)]
    /\ UNCHANGED <<pc, input, entries, i, st, timeline, err, output, ret>>

\* the Encode of a decoded timeline
GoEncode ==
    /\ pc = "conc"
    /\ \E g \in Goroutines :
          /\ \E q \in EncodeSteps(arg.procs[g]) :
                arg' = [procs |-> GoStep(arg.procs, g, q)]
    /\ UNCHANGED <<pc, input, entries, i, st, timeline, err, output, ret>>

PoolConc == {uriA, lineRangeAt}

InitConc ==
    /\ pc = "conc"
    /\ \E a, b \in MediaPlaylists(lineExtinfTitle, PoolConc, MaxConcLines) :
          arg = [procs |-> <<InitProc(a), InitProc(b)>>]
    /\ input = <<>> /\ entries = <<>> /\ i = 0 /\ st = NoState
    /\ timeline = NilTimeline /\ err = ErrNone /\ output = <<>>
    /\ ret = NoRet

NextConc == GoDecode \/ GoEncode

SpecConc == InitConc /\ [][NextConc]_vars

\* the states in which an invocation run alone can end
RECURSIVE RunAlone(_)
RunAlone(p) ==
    IF ProcSteps(p) = {} THEN {p} ELSE UNION {RunAlone(q) : q \in ProcSteps(p)}

----------------------------------------------------------------------------
(* Playlists with malformed fields *)

lineVersionBad == tagEXTXVersion \o <<"x">>

lineSeqBad == tagEXTXMediaSequence \o <<"1", "x">>

lineExtinfBad == tagEXTINF \o <<"x", ",">> \o titleT

lineRangeBad == tagEXTXByterange \o <<"7", "@", "x">>

PoolBad == {lineVersionBad, lineTargetBad, lineSeqBad, lineExtinfBad, lineRangeBad, uriA}

SpecBad == InitOver(Playlists(PoolBad, MaxBadLines)) /\ [][Next]_vars

\* the text is a number: an optional sign, digits, at most one point among them
C18_IsNumber(t) ==
    LET body == IF t # <<>> /\ t[1] \in {"+", "-"} THEN Tail(t) ELSE t
    IN  /\ \E k \in 1..Len(body) : body[k] \in Digits
        /\ \A k \in 1..Len(body) : body[k] \in Digits \cup {"."}
        /\ Cardinality({k \in 1..Len(body) : body[k] = "."}) <= 1

\* the text before the first comma of the value of an EXTINF line
C18_DurationText(k) ==
    LET v == RefValue(k, sEXTINF)
        c == {j \in 1..Len(v) : v[j] = ","}
    IN  TrimSpace(IF c = {} THEN v ELSE Take(v, MinOf(c) - 1))

\* the lines with the tag between the URI line before the n-th and the n-th
C18_Staged(n, name) == {k \in RefTagIdx(name) : RefPrevURI(n) < k /\ k < RefURIAt(n)}

\* C18: Decode of a media playlist with malformed fields returns a timeline
\* with one clip for each URI line; a VERSION, TARGETDURATION or MEDIA-SEQUENCE
\* whose value is not a number is stored as zero; a segment whose EXTINF
\* duration is not a number has the duration zero; a segment whose
\* EXT-X-BYTERANGE values all fail to parse has no byterange.
C18_LocalRecovery ==
    pc = "decoded" =>
        LET hls == timeline.tracks[1].metadata[metadataNamespace].v
            zero(name, key) ==
                (/\ RefTagIdx(name) # {}
                 /\ ~C18_IsNumber(TrimSpace(RefValue(RefLast(RefTagIdx(name)), name))))
                    => Has(hls, key) /\ hls[key] = IntV(0)
        IN  /\ err = ErrNone /\ ~timeline.isNil
            /\ Len(Clips) = Len(RefURIIdx)
            /\ zero(sEXTXVersion, "version")
            /\ zero(sEXTXTargetDuration, "target_duration")
            /\ zero(sEXTXMediaSequence, "media_sequence")
            /\ \A n \in 1..Len(Clips) :
                  /\ (/\ C18_Staged(n, sEXTINF) # {}
                      /\ ~C18_IsNumber(C18_DurationText(RefLast(C18_Staged(n, sEXTINF)))))
                        => ClipDuration(Clips[n]) = 0
                  /\ (\A k \in C18_Staged(n, sEXTXByterange) :
                         NewByterangeFromString(RefValue(k, sEXTXByterange)).err)
                        => ~ClipHas(Clips[n], streamingMetadataNamespace, "byte_count")

C18_Witness ==
    /\ pc = "decoded"
    /\ Len(Clips) = 1
    /\ RefTagIdx(sEXTXVersion) # {}
    /\ C18_Staged(1, sEXTINF) # {}
    /\ C18_Staged(1, sEXTXByterange) # {}
    /\ timeline.tracks[1].metadata[metadataNamespace].v["version"] = IntV(0)
    /\ ClipDuration(Clips[1]) = 0

----------------------------------------------------------------------------
(* The attribute parser on lists with malformed and empty items: the items *)
(* are written with commas between them, so that an empty first item is a  *)
(* leading comma and an empty item further on two consecutive commas.      *)

\* an item that is no attribute: its key is empty
Malformed(text) == [key |-> <<>>, value |-> <<>>, text |-> text]

itemEmpty == Malformed(<<>>)

itemLower == Malformed(<<"A", "=", "a", "b", "c">>)

PoolItem == {itemEmpty, itemLower, attrBandwidth, attrURI}

InitLenient ==
    /\ pc = "attr_text"
    /\ input = <<>> /\ entries = <<>> /\ i = 0 /\ st = NoState
    /\ timeline = NilTimeline /\ err = ErrNone /\ output = <<>>
    /\ ret = NoRet
    /\ \E l \in StringsUpTo(PoolItem, MaxItems) :
          arg = [from |-> "items", list |-> l,
                 text |-> Join([k \in 1..Len(l) |-> l[k].text], <<",">>)]

SpecLenient == InitLenient /\ [][NextAttr]_vars

\* C19: from a list with malformed or empty items (a lowercase bare value, a
\* leading comma, two consecutive commas) ParseAttributeList returns exactly
\* the well-formed attributes of the list: the malformed items are dropped and
\* every well-formed attribute, also one that follows them, is recorded.
C19_MalformedDropped ==
    (pc = "attr_done" /\ arg.from = "items") =>
        LET good == {arg.list[n] : n \in {k \in 1..Len(arg.list) : arg.list[k].key # <<>>}}
        IN  ret.attrs = [k \in {a.key : a \in good} |->
                            (CHOOSE a \in good : a.key = k).value]

C19_Witness ==
    /\ pc = "attr_done" /\ arg.from = "items"
    /\ Len(arg.list) = 2
    /\ arg.list[1] = itemEmpty
    /\ arg.list[2] = attrBandwidth
    /\ ret.attrs = EmptyDict

----------------------------------------------------------------------------
(* The media encoder under test: Encode of a timeline with one track built *)
(* by the caller, with any of the four playlist fields in its HLS metadata *)
(* and any children of the pool.                                           *)

clipMap ==
    [name |-> <<>>, sourceRange |-> [has |-> TRUE, duration |-> 2 * MicroScale],
     targetURL |-> uriB,
     metadata |-> Put(EmptyDict, metadataNamespace,
                      MapV(Put(EmptyDict, "map",
                               MapV(Put(Put(EmptyDict, "uri", StrV(mapI)),
                                        "byterange",
                                        MapV(Put(Put(EmptyDict, "count", Int64V(2)),
                                                 "offset", Int64V(1)))))))),
     refMetadata |-> EmptyDict]

PoolClips == {clipPlain, clipRange, clipMap, gapChild}

\* the HLS metadata of a track with the fields of the set
TrackFields(fields) ==
    [k \in fields |->
        CASE k = "version" -> IntV(7)
          [] k = "target_duration" -> FloatV(10 * MicroScale)
          [] k = "media_sequence" -> IntV(2)
          [] OTHER -> StrV(<<"V", "O", "D">>)]

InitMedia ==
    /\ pc = "built"
    /\ \E fields \in SUBSET {"version", "target_duration", "media_sequence", "playlist_type"},
          ch \in StringsUpTo(PoolClips, MaxClips) :
          timeline = [isNil |-> FALSE, name |-> "t", metadata |-> EmptyDict,
                      tracks |-> <<[name |-> <<"v", "1">>, kind |-> TrackKindVideo,
                                    metadata |-> Put(EmptyDict, metadataNamespace,
                                                     MapV(TrackFields(fields))),
                                    children |-> ch]>>]
    /\ input = <<>> /\ entries = <<>> /\ i = 0 /\ st = NoState
    /\ err = ErrNone /\ output = <<>>
    /\ arg = NoArg /\ ret = NoRet

NextMedia == Encode

SpecMedia == InitMedia /\ [][NextMedia]_vars

\* the tag of a line of the output, "URI" for a line that is no tag
C20_Kind(line) ==
    IF line = <<>> \/ line[1] # "#" THEN <<"U", "R", "I">>
    ELSE LET c == {k \in 1..Len(line) : line[k] = ":"}
         IN  IF c = {} THEN Tail(line) ELSE Take(Tail(line), MinOf(c) - 2)

\* the tags of the blocks of the clips: EXTINF, EXT-X-BYTERANGE when the clip
\* has a byterange, and the URI line
RECURSIVE C20_Blocks(_)
C20_Blocks(clips) ==
    IF clips = <<>> THEN <<>>
    ELSE LET md == Head(clips).metadata
             hasRange == /\ IsA(md, metadataNamespace, "map")
                         /\ Has(md[metadataNamespace].v, "byterange")
         IN  <<sEXTINF>> \o (IF hasRange THEN <<sEXTXByterange>> ELSE <<>>)
                 \o <<<<"U", "R", "I">>>> \o C20_Blocks(Tail(clips))

----------------------------------------------------------------------------
(* The init segments of the media encoder: Encode of one track whose       *)
(* children are clips with the init segment i and a byterange, with the    *)
(* init segment i and no byterange, with the init segment j, with no init  *)
(* segment, and gaps.                                                      *)

clipMapBare ==
    [name |-> <<>>, sourceRange |-> [has |-> TRUE, duration |-> 2 * MicroScale],
     targetURL |-> uriA,
     metadata |-> Put(EmptyDict, metadataNamespace,
                      MapV(Put(EmptyDict, "map", MapV(Put(EmptyDict, "uri", StrV(mapI)))))),
     refMetadata |-> EmptyDict]

clipMapJ ==
    [name |-> <<>>, sourceRange |-> [has |-> TRUE, duration |-> 2 * MicroScale],
     targetURL |-> uriB,
     metadata |-> Put(EmptyDict, metadataNamespace,
                      MapV(Put(EmptyDict, "map", MapV(Put(EmptyDict, "uri", StrV(mapJ)))))),
     refMetadata |-> EmptyDict]

PoolMapClips == {clipMap, clipMapBare, clipMapJ, clipPlain, gapChild}

InitInitSegments ==
    /\ pc = "built"
    /\ \E ch \in StringsUpTo(PoolMapClips, MaxMapClips) :
          timeline = [isNil |-> FALSE, name |-> "t", metadata |-> EmptyDict,
                      tracks |-> <<[name |-> <<"v", "1">>, kind |-> TrackKindVideo,
                                    metadata |-> EmptyDict, children |-> ch]>>]
    /\ input = <<>> /\ entries = <<>> /\ i = 0 /\ st = NoState
    /\ err = ErrNone /\ output = <<>>
    /\ arg = NoArg /\ ret = NoRet

SpecInitSegments == InitInitSegments /\ [][NextMedia]_vars

\* the clips of the track, in track order
C21_Clips == SelectSeq(timeline.tracks[1].children, IsClip)

\* the init segment of a clip: whether it has one, its URI and its byterange text
C21_InitSegment(clip) ==
    LET hls == IF IsA(clip.metadata, metadataNamespace, "map")
               THEN clip.metadata[metadataNamespace].v ELSE EmptyDict
        has == IsA(hls, "map", "map")
        md  == IF has THEN hls["map"].v ELSE EmptyDict
    IN  [has |-> has,
         uri |-> IF IsA(md, "uri", "string") THEN md["uri"].v ELSE <<>>,
         br  |-> IF IsA(md, "byterange", "map")
                 THEN ByterangeString(ByterangeFromMetadata(md["byterange"].v))
                 ELSE <<>>]

\* the URI and byterange of the nearest clip before the k-th that has an init
\* segment, both empty when there is none
C21_LastInit(k) ==
    LET before == {j \in 1..(k - 1) : C21_InitSegment(C21_Clips[j]).has}
        last   == C21_InitSegment(C21_Clips[MaxOf(before)])
    IN  IF before = {} THEN <<<<>>, <<>>>> ELSE <<last.uri, last.br>>

\* the index of the k-th EXTINF line of the output
C21_ExtinfAt(k) ==
    CHOOSE e \in OutTagIdx(sEXTINF) : Cardinality({j \in OutTagIdx(sEXTINF) : j <= e}) = k

\* the line before the EXTINF line of the k-th clip is an EXT-X-MAP line
C21_MapBefore(k) == (C21_ExtinfAt(k) - 1) \in OutTagIdx(sEXTXMap)

\* C21 as stated: the k-th clip gets an EXT-X-MAP line exactly when it has an
\* init segment that differs from the init segment of the clip immediately
\* before it
C21_AsStated ==
    (pc = "encoded" /\ IsMediaOutput) =>
        \A k \in 1..Len(C21_Clips) :
            C21_MapBefore(k) <=>
                /\ C21_InitSegment(C21_Clips[k]).has
                /\ k = 1 \/ C21_InitSegment(C21_Clips[k]) # C21_InitSegment(C21_Clips[k - 1])

\* C21: in a media playlist an EXT-X-MAP line stands before the EXTINF line of
\* a clip exactly when the clip has an init segment whose URI or byterange
\* differs from those of the last EXT-X-MAP line written (both empty before the
\* first), which are those of the nearest earlier clip that has an init
\* segment: clips without one, and children that are no clips, neither get a
\* line nor change what is remembered.  The line carries the clip's URI, bare
\* or quoted, and no other EXT-X-MAP line is written.
C21_MapOnChange ==
    (pc = "encoded" /\ IsMediaOutput) =>
        /\ \A k \in 1..Len(C21_Clips) :
            LET seg == C21_InitSegment(C21_Clips[k])
            IN  /\ C21_MapBefore(k) <=> (seg.has /\ <<seg.uri, seg.br>> # C21_LastInit(k))
                /\ C21_MapBefore(k) =>
                     \/ StringsContains(output[C21_ExtinfAt(k) - 1],
                                        <<"U", "R", "I", "=">> \o seg.uri)
                     \/ StringsContains(output[C21_ExtinfAt(k) - 1],
                                        <<"U", "R", "I", "=", "\"">> \o seg.uri \o <<"\"">>)
        /\ Cardinality(OutTagIdx(sEXTXMap))
              = Cardinality({k \in 1..Len(C21_Clips) : C21_MapBefore(k)})

C21_Witness ==
    /\ pc = "encoded" /\ IsMediaOutput
    /\ timeline.tracks[1].children = <<clipMap, clipPlain, clipMap>>
    /\ Cardinality(OutTagIdx(sEXTXMap)) = 1
    /\ C21_MapBefore(1)

----------------------------------------------------------------------------
(* The order of a master playlist: Encode of a timeline that asks for a    *)
(* master playlist, with tracks drawn from two audio tracks, a video track *)
(* that links both of them, a second video track, and a track of another   *)
(* kind.                                                                   *)

trackAudioG1 ==
    [name |-> <<"a", "1">>, kind |-> TrackKindAudio,
     metadata |-> Put(EmptyDict, streamingMetadataNamespace,
                      MapV(Put(EmptyDict, "group_id", StrV(<<"g", "1">>)))),
     children |-> <<>>]

trackAudioG2 ==
    [name |-> <<"a", "2">>, kind |-> TrackKindAudio,
     metadata |-> Put(EmptyDict, streamingMetadataNamespace,
                      MapV(Put(EmptyDict, "group_id", StrV(<<"g", "2">>)))),
     children |-> <<>>]

\* a video track with an I-frame playlist whose linked_tracks names a2, then a1
trackLinkedBoth ==
    [name |-> <<"v", "1">>, kind |-> TrackKindVideo,
     metadata |->
        Put(Put(EmptyDict, metadataNamespace,
                MapV(Put(EmptyDict, "iframe_uri", StrV(<<"v", "1", "/", "i", ".", "m", "3", "u", "8">>)))),
            "linked_tracks", ListV(<<StrV(<<"a", "2">>), StrV(<<"a", "1">>)>>)),
     children |-> <<>>]

\* a video track with an I-frame playlist and a uri of its own
trackPlainVideo ==
    [name |-> <<"v", "2">>, kind |-> TrackKindVideo,
     metadata |->
        Put(EmptyDict, metadataNamespace,
            MapV(Put(Put(EmptyDict, "iframe_uri", StrV(<<"v", "2", "/", "i", ".", "m", "3", "u", "8">>)),
                     "uri", StrV(<<"v", "2", "/", "x", ".", "m", "3", "u", "8">>)))),
     children |-> <<>>]

TrackKindSubtitle == "Subtitle"

trackSubtitle ==
    [name |-> <<"s", "1">>, kind |-> TrackKindSubtitle,
     metadata |-> Put(EmptyDict, "linked_tracks", ListV(<<StrV(<<"a", "1">>)>>)),
     children |-> <<>>]

PoolOrderTracks ==
    {trackAudioG1, trackAudioG2, trackLinkedBoth, trackPlainVideo, trackSubtitle}

InitMasterOrder ==
    /\ pc = "built"
    /\ \E ch \in StringsUpTo(PoolOrderTracks, MaxOrderTracks) :
          /\ ch # <<>>
          /\ \A x, y \in 1..Len(ch) : x # y => ch[x] # ch[y]
          /\ timeline = [isNil |-> FALSE, name |-> "t", metadata |-> metaMaster,
                         tracks |-> ch]
    /\ input = <<>> /\ entries = <<>> /\ i = 0 /\ st = NoState
    /\ err = ErrNone /\ output = <<>>
    /\ arg = NoArg /\ ret = NoRet

NextMasterOrder == EncodeMaster

SpecMasterOrder == InitMasterOrder /\ [][NextMasterOrder]_vars

\* the tracks of one kind, in track order
C22_Tracks(kind) == SelectSeq(timeline.tracks, LAMBDA t : IsTrack(t) /\ t.kind = kind)

\* the indexes of the lines of a tag, in the order of the output
C22_Lines(name) ==
    LET idx == OutTagIdx(name)
    IN  [n \in 1..Cardinality(idx) |->
            CHOOSE e \in idx : Cardinality({j \in idx : j <= e}) = n]

\* the uri of a track: uri of its HLS metadata, or its name and ".m3u8"
C22_URI(t) ==
    IF IsA(t.metadata, metadataNamespace, "map")
       /\ IsA(t.metadata[metadataNamespace].v, "uri", "string")
    THEN t.metadata[metadataNamespace].v["uri"].v
    ELSE t.name \o <<".", "m", "3", "u", "8">>

\* the group ids of the audio tracks a video track links, in track order
C22_LinkedGroups(v) ==
    LET names == IF IsA(v.metadata, "linked_tracks", "list")
                 THEN {v.metadata["linked_tracks"].v[j].v :
                          j \in 1..Len(v.metadata["linked_tracks"].v)}
                 ELSE {}
        linked == SelectSeq(C22_Tracks(TrackKindAudio), LAMBDA a : a.name \in names)
    IN  [k \in 1..Len(linked) |-> linked[k].metadata[streamingMetadataNamespace].v["group_id"].v]

\* C22: in a master playlist every video track has exactly one
\* EXT-X-STREAM-INF line, in track order, with the track's URI line right after
\* it (uri of the HLS metadata, or the track name and ".m3u8"); however many
\* audio tracks its linked_tracks names, the line carries the AUDIO group of the
\* first of them in track order, and no AUDIO when it names none.  There is one
\* EXT-X-MEDIA line per audio track, in track order; all of them stand before
\* every EXT-X-I-FRAME-STREAM-INF line and those before every EXT-X-STREAM-INF
\* line; tracks of any other kind add no line.
C22_MasterOrder ==
    (pc = "encoded" /\ IsMasterOutput) =>
        LET video  == C22_Tracks(TrackKindVideo)
            audio  == C22_Tracks(TrackKindAudio)
            media  == C22_Lines(sEXTXMedia)
            iframe == C22_Lines(sEXTXIFrameStreamInf)
            stream == C22_Lines(sEXTXStreamInf)
        IN  /\ Len(stream) = Len(video)
            /\ \A k \in 1..Len(video) :
                  LET groups == C22_LinkedGroups(video[k])
                      line   == output[stream[k]]
                  IN  /\ stream[k] < Len(output)
                      /\ output[stream[k] + 1] = C22_URI(video[k])
                      /\ IF groups = <<>>
                         THEN ~StringsContains(line, kAUDIO \o <<"=">>)
                         ELSE /\ OutHasAttr(line, kAUDIO, groups[1])
                              /\ \A g \in 2..Len(groups) :
                                    groups[g] # groups[1]
                                       => ~OutHasAttr(line, kAUDIO, groups[g])
            /\ Len(media) = Len(audio)
            /\ \A k \in 1..Len(audio) :
                  /\ OutHasAttr(output[media[k]], kNAME, audio[k].name)
                  /\ OutHasAttr(output[media[k]], kURI, C22_URI(audio[k]))
            /\ \A m \in OutTagIdx(sEXTXMedia), f \in OutTagIdx(sEXTXIFrameStreamInf),
                  s \in OutTagIdx(sEXTXStreamInf) : m < f /\ f < s
            /\ \A m \in OutTagIdx(sEXTXMedia), s \in OutTagIdx(sEXTXStreamInf) : m < s
            /\ Cardinality({k \in 1..Len(output) : output[k] # <<>>})
                  = 2 + Len(media) + Len(iframe) + 2 * Len(video)

C22_Witness ==
    /\ pc = "encoded" /\ IsMasterOutput
    /\ timeline.tracks = <<trackAudioG1, trackAudioG2, trackLinkedBoth>>
    /\ Len(C22_Lines(sEXTXStreamInf)) = 1
    /\ OutHasAttr(output[C22_Lines(sEXTXStreamInf)[1]], kAUDIO, <<"g", "1">>)
    /\ Len(C22_Lines(sEXTXMedia)) = 2
    /\ Len(C22_Lines(sEXTXIFrameStreamInf)) = 1

----------------------------------------------------------------------------
(* The values NewByterangeFromString returns *)

\* a text that is a non-negative integer: one or more digits
C23_IsNat(s) == s # <<>> /\ AllDigits(s)

\* the text is one or two parts around at most one "@", each a non-negative
\* integer
C23_WellFormed(t) ==
    LET at == {k \in 1..Len(t) : t[k] = "@"}
    IN  \/ at = {} /\ C23_IsNat(t)
        \/ /\ Cardinality(at) = 1
           /\ C23_IsNat(Take(t, MinOf(at) - 1))
           /\ C23_IsNat(Drop(t, MinOf(at)))

\* C23: every byterange NewByterangeFromString returns without an error has a
\* count and an offset that are not negative, and a text with more than one
\* "@" or with a part that is not a non-negative integer gives an error and no
\* byterange.
C23_Unsigned ==
    (pc \in {"br_parsed", "br_done"} /\ arg.from = "text") =>
        /\ ~ret.parsed.err =>
              /\ ~ret.parsed.br.isNil
              /\ ret.parsed.br.Count >= 0
              /\ ret.parsed.br.Offset >= 0
        /\ ~C23_WellFormed(arg.text) => (ret.parsed.err /\ ret.parsed.br.isNil)

\* the text "-1" was parsed without an error, to the count -1
C23_Witness ==
    /\ pc = "br_parsed" /\ arg.from = "text"
    /\ arg.text = <<"-", "1">>
    /\ ~ret.parsed.err
    /\ ret.parsed.br.Count = -1

----------------------------------------------------------------------------
(* Several EXTINF tags before one URI line *)

\* the last EXTINF line staged for the n-th URI line
C24_LastExtinf(n) == MaxOf(C3_Extinfs(n))

\* the source range of a clip decoded with the duration d
C24_Range(d) == IF d > 0 THEN [has |-> TRUE, duration |-> d] ELSE NoRange

\* C24: the clip of a URI line has the duration and the title of the last
\* EXTINF tag between the previous URI line and its own, whatever EXTINF tags
\* stand before that one: its name is that tag's title, or the URI when that
\* tag has no comma or an empty title; a URI line with no EXTINF tag since the
\* previous URI line gives a clip of duration 0 named by its URI.
C24_LastExtinfWins ==
    pc = "decoded" =>
        /\ C3_OneClipPerURI
        /\ \A n \in 1..Len(RefURIIdx) :
              IF C3_Extinfs(n) = {}
              THEN /\ ClipDuration(Clips[n]) = 0
                   /\ Clips[n].name = RefLine(RefURIAt(n))
              ELSE /\ Clips[n].sourceRange = C24_Range(C3_ExtinfDuration(C24_LastExtinf(n)))
                   /\ Clips[n].name = C3_NameOf(n, C24_LastExtinf(n))

\* an EXTINF with a title and then one without a comma were staged for one
\* URI line, and the clip has the duration of the second and the title of the
\* first
C24_Witness ==
    /\ pc = "decoded"
    /\ input = <<tagEXTM3U, lineExtinfTitle, lineExtinfBare, uriA>>
    /\ Len(Clips) = 1
    /\ ClipDuration(Clips[1]) = 7 * MicroScale
    /\ Clips[1].name = titleT

----------------------------------------------------------------------------
(* The outcomes of Decode *)

\* Decode has returned
C25_Returned == pc \in {"done", "decoded"}

\* neither an EXTINF nor an EXT-X-STREAM-INF tag in the input
C25_NeitherTag == RefFirst(sEXTINF) = 0 /\ RefFirst(sEXTXStreamInf) = 0

====
